---- MODULE Spec2Model ----
(***************************************************************************)
(* Model of the multi-descriptor search handler of the CBIR backend        *)
(* (src/backend/main.py, search_by_multi_descriptor).                      *)
(*                                                                         *)
(* Units.  Floats of the handler are modelled as exact fixed-point         *)
(* integers:                                                               *)
(*   weights            in 1/WeightScale      (0.70 is 700)                *)
(*   backend similarity in 1/SimScale         (_score 1.0 is 2000)         *)
(*   percentages        in tenths of a percent (100.0 is PctScale = 1000)  *)
(*   score * weight     in 1/(SimScale*WeightScale)                        *)
(* Vectors are 2-dimensional integer vectors of integer norm, so that the  *)
(* cosine is an exact multiple of 1/1000.                                  *)
(***************************************************************************)
EXTENDS Integers, Sequences, FiniteSets, TLC

VARIABLES
    request,          \* the MultiDescriptorSearchRequest: image_data, top_k, weights
    corpus,           \* the documents of the Elasticsearch index, by position
    pc,               \* position of the handler
    weights,          \* local `weights` (effective weights after rebalancing)
    idx,              \* position in descriptor_configs of the search loop
    calls,            \* number of es.search calls issued per descriptor
    failed,           \* descriptors whose es.search raised
    all_results,      \* local `all_results`, an insertion-ordered dict
    top_candidates,   \* local `top_candidates` / `final_results`
    response,         \* what the handler returns or raises
    handler,          \* the endpoint serving the request: "multi" or "hybrid"
    hrequest,         \* the HybridSearchRequest (hybrid endpoint only)
    cv_features,      \* search_hybrid: the CV descriptors were extracted (not None)
    text_results,     \* search_hybrid: local `text_results`
    image,            \* utils.extract_all_descriptors: the `image` argument
    descriptor_names, \* utils.extract_all_descriptors: the `descriptor_names` argument
    features,         \* utils.extract_all_descriptors: local `results`, the dict returned
    args,             \* process_documents: batch_size, force, offset, limit, workers
    es_docs,          \* the `_source` of the index's documents, in scroll order
    scroll_hits,      \* process_documents: local `hits`, the current page
    scrolled,         \* how many documents the scroll has returned so far
    documents_seen,   \* process_documents: local `documents_seen`
    processed,        \* process_documents: local `processed`
    errors,           \* process_documents: local `errors`
    skipped,          \* process_documents: local `skipped`
    batch_docs,       \* process_documents: local `batch_docs`
    futures,          \* the state of each future of `future_to_doc`
    updates,          \* process_documents: local `updates`
    considered,       \* the documents the processing loop has reached (line 246)
    downloaded,       \* the documents a worker has called download_image for
    bulk_items,       \* the documents sent to helpers.bulk, and whether it applied them
    scroll_cleared,   \* es.clear_scroll has been called
    database,         \* the filenames of the ImageModel rows, by id
    image_dir,        \* the image files under settings.IMAGE_DIR, and where they lie
    search_engine,    \* FaissSearchEngine: `indexes` and `id_mappings`
    index_files,      \* the .index and _ids.pkl files of settings.INDEX_DIR
    query,            \* FaissSearchEngine.search: the arguments of the last call
    found             \* FaissSearchEngine.search: what the last call returned

\* the variables only search_hybrid uses
hvars == <<handler, hrequest, cv_features, text_results>>

\* the variables only utils.extract_all_descriptors uses
xvars == <<image, descriptor_names, features>>

\* the variables only the backfill script uses
bvars == <<args, es_docs, scroll_hits, scrolled, documents_seen, processed, errors, skipped,
           batch_docs, futures, updates, considered, downloaded, bulk_items,
           scroll_cleared>>

\* the variables only the Faiss engine and the index builder use
fvars == <<database, image_dir, search_engine, index_files, query, found>>

vars == <<request, corpus, pc, weights, idx, calls, failed, all_results,
          top_candidates, response, hvars, xvars, bvars, fvars>>

-----------------------------------------------------------------------------
(* Bounds of the model *)

\* request.top_k ranges over 1..MaxTopK
MaxTopK == 2
\* number of documents in the index
NumDocs == 3
\* a request other than the default one gives at most MaxActive descriptors a
\* weight > 0
MaxActive == 2

-----------------------------------------------------------------------------
(* Fixed-point units and program constants *)

WeightScale == 1000
SimScale == 2000
PctScale == 1000

\* main.py:223-224
VggShare == 700
RemainingShare == 300

\* descriptor_configs, main.py:237-244, in iteration order
Desc == <<"vgg", "color", "lbp", "hog", "edge_histogram", "sift">>

DescSet == {Desc[i] : i \in 1..Len(Desc)}

FieldName(d) ==
    CASE d = "vgg" -> "vgg16_features"
      [] d = "color" -> "color_histogram"
      [] d = "lbp" -> "lbp_features"
      [] d = "hog" -> "hog_features"
      [] d = "edge_histogram" -> "edge_histogram"
      [] d = "sift" -> "sift_features"

\* MultiDescriptorSearchRequest defaults, main.py:150-155
DefaultWeights ==
    [d \in DescSet |->
        CASE d = "vgg" -> 250
          [] d = "color" -> 250
          [] d = "lbp" -> 150
          [] d = "hog" -> 150
          [] d = "edge_histogram" -> 100
          [] d = "sift" -> 100]

-----------------------------------------------------------------------------
(* Arithmetic helpers *)

Min(a, b) == IF a <= b THEN a ELSE b
Max(a, b) == IF a >= b THEN a ELSE b

RECURSIVE SumFn(_, _)
\* sum(f.values()) over the keys S of f
SumFn(f, S) ==
    IF S = {} THEN 0
    ELSE LET x == CHOOSE y \in S : TRUE
         IN f[x] + SumFn(f, S \ {x})

\* round(num / den, 0) for num >= 0, den > 0 (nearest integer)
RoundDiv(num, den) == (2 * num + den) \div (2 * den)

Dot(u, v) == u[1] * v[1] + u[2] * v[2]

\* np.linalg.norm of an integer vector of integer norm
Norm(v) == CHOOSE r \in 0..(Dot(v, v)) : r * r = Dot(v, v)

-----------------------------------------------------------------------------
(* The index: documents and the kNN backend *)

\* The descriptors extracted from the query image (main.py:201), one vector
\* per descriptor.
QueryVec(d) == <<3, 4>>

\* _source of a document with every descriptor field and complete metadata.
DocFull ==
    [flickr_farm |-> "66", flickr_server |-> "65535", flickr_secret |-> "abc",
     image_status |-> "processed",
     vectors |-> ("vgg16_features" :> <<3, 4>>) @@ ("color_histogram" :> <<4, 3>>)
              @@ ("lbp_features" :> <<3, 4>>) @@ ("hog_features" :> <<3, 4>>)
              @@ ("edge_histogram" :> <<4, 3>>) @@ ("sift_features" :> <<3, 4>>)]

\* _source of a document the backfill has not (fully) reached: it has no HOG,
\* edge or SIFT field; its VGG vector is orthogonal to the query.
DocPartial ==
    [flickr_farm |-> "66", flickr_server |-> "65535", flickr_secret |-> "def",
     image_status |-> "processed",
     vectors |-> ("vgg16_features" :> <<-4, 3>>) @@ ("color_histogram" :> <<3, 4>>)
              @@ ("lbp_features" :> <<-3, -4>>)]

\* _source of a document ingested without its flickr_secret.
DocNoSecret ==
    [flickr_farm |-> "66", flickr_server |-> "65535", flickr_secret |-> "",
     image_status |-> "processed",
     vectors |-> ("vgg16_features" :> <<3, 4>>) @@ ("color_histogram" :> <<3, 4>>)
              @@ ("lbp_features" :> <<4, 3>>) @@ ("hog_features" :> <<3, 4>>)
              @@ ("edge_histogram" :> <<3, 4>>) @@ ("sift_features" :> <<4, 3>>)]

\* _source of a document whose image download failed at ingestion (it was
\* stored without VGG features) and that the descriptor backfill reached later.
DocDownloadFailed ==
    [flickr_farm |-> "66", flickr_server |-> "65535", flickr_secret |-> "ghi",
     image_status |-> "download_failed",
     vectors |-> ("color_histogram" :> <<3, 4>>) @@ ("lbp_features" :> <<3, 4>>)
              @@ ("hog_features" :> <<3, 4>>) @@ ("edge_histogram" :> <<3, 4>>)
              @@ ("sift_features" :> <<3, 4>>)]

\* _source of a fully processed document ingested from the very image the
\* query sends: every stored vector equals the query's vector.
DocIdentical ==
    [flickr_farm |-> "66", flickr_server |-> "65535", flickr_secret |-> "jkl",
     image_status |-> "processed",
     vectors |-> [f \in {"vgg16_features", "color_histogram", "lbp_features",
                         "hog_features", "edge_histogram", "sift_features"} |-> <<3, 4>>]]

\* _source of a document whose VGG feature extraction failed at ingestion
\* (ingest_flickr_data.py:222-234) and that the descriptor backfill reached
\* later.
DocExtractionFailed ==
    [flickr_farm |-> "66", flickr_server |-> "65535", flickr_secret |-> "mno",
     image_status |-> "feature_extraction_failed",
     vectors |-> ("color_histogram" :> <<3, 4>>) @@ ("lbp_features" :> <<4, 3>>)
              @@ ("hog_features" :> <<3, 4>>) @@ ("edge_histogram" :> <<3, 4>>)
              @@ ("sift_features" :> <<3, 4>>)]

DocKinds == <<"partial", "no_secret", "full", "download_failed">>

\* The indexes considered: NumDocs documents, each of one of the four kinds.
\* Documents of one kind are interchangeable, so an index is listed kind by
\* kind.
Corpora ==
    {[i \in 1..NumDocs |-> DocKinds[c[i]]] :
        c \in {f \in [1..NumDocs -> 1..Len(DocKinds)] :
                  \A i \in 1..NumDocs, j \in 1..NumDocs : i < j => f[i] <= f[j]}}

\* The indexes that hold a copy of the query image (as their last document).
IdenticalCorpora ==
    {[i \in 1..NumDocs |-> IF i = NumDocs THEN "identical" ELSE c[i]] : c \in Corpora}

\* The indexes that hold (as their last document) a document whose feature
\* extraction failed at ingestion.
ExtractionFailedCorpora ==
    {[i \in 1..NumDocs |-> IF i = NumDocs THEN "extraction_failed" ELSE c[i]] :
        c \in Corpora}

\* hit["_source"] of the document at position image_id of the index
Source(docs, image_id) ==
    CASE docs[image_id] = "full" -> DocFull
      [] docs[image_id] = "partial" -> DocPartial
      [] docs[image_id] = "no_secret" -> DocNoSecret
      [] docs[image_id] = "download_failed" -> DocDownloadFailed
      [] docs[image_id] = "identical" -> DocIdentical
      [] docs[image_id] = "extraction_failed" -> DocExtractionFailed

\* source.get(field) of the stored descriptor fields
HasField(src, d) == FieldName(d) \in DOMAIN src.vectors

\* cosine similarity of two vectors, in 1/PctScale; 0 stands for "undefined"
\* (a zero vector), which the callers test for first
Cosine(u, v) ==
    IF Norm(u) = 0 \/ Norm(v) = 0 THEN 0
    ELSE (Dot(u, v) * PctScale) \div (Norm(u) * Norm(v))

\* Elasticsearch's _score of a dense_vector field with cosine similarity:
\* (1 + cosine) / 2, in 1/SimScale
EsScore(u, v) == ((PctScale + Cosine(u, v)) * SimScale) \div (2 * PctScale)

\* ids of the documents the kNN search on descriptor d can return
Indexed(docs, d) ==
    {i \in DOMAIN docs :
        /\ HasField(Source(docs, i), d)
        /\ Norm(Source(docs, i).vectors[FieldName(d)]) > 0}

\* _score of every kind of document for the kNN query on each descriptor field
\* the document holds
KindScores ==
    [kind \in {"full", "partial", "no_secret", "download_failed", "identical",
               "extraction_failed"} |->
        LET src == Source([i \in {1} |-> kind], 1)
        IN [d \in {x \in DescSet : HasField(src, x)} |->
               EsScore(QueryVec(d), src.vectors[FieldName(d)])]]

\* hit["_score"] of the document at position image_id for the kNN query on d
DocScore(docs, image_id, d) == KindScores[docs[image_id]][d]

RECURSIVE TopHits(_, _, _, _)
\* the k nearest of the documents S, best first (ties by position in the index)
TopHits(docs, d, S, k) ==
    IF S = {} \/ k <= 0 THEN <<>>
    ELSE LET sc(i) == DocScore(docs, i, d)
             best == CHOOSE i \in S :
                        \A j \in S : sc(i) > sc(j) \/ (sc(i) = sc(j) /\ i <= j)
         IN <<[id |-> best, score |-> sc(best)]>> \o TopHits(docs, d, S \ {best}, k - 1)

\* response["hits"]["hits"] of es.search for the kNN query on descriptor d
KnnSearch(docs, d, k) == TopHits(docs, d, Indexed(docs, d), k)

-----------------------------------------------------------------------------
(* search_by_multi_descriptor: pure parts *)

\* active_descriptors, main.py:218
ActiveDescriptors(w) == {d \in DescSet : w[d] > 0}

\* Variant of RebalancedWeights: VGG gets the 50% the comments of main.py:207
\* and 222 speak of.
RebalancedWeightsHalf(w) ==
    LET active == {d \in DescSet : w[d] > 0}
        others == active \ {"vgg"}
    IN IF "vgg" \in active /\ Cardinality(active) > 1
       THEN [d \in DescSet |->
                IF d = "vgg" THEN 500
                ELSE IF d \in others THEN 500 \div Cardinality(others)
                ELSE w[d]]
       ELSE w

\* the weight rebalancing of main.py:220-230
RebalancedWeights(w) ==
    LET active == ActiveDescriptors(w)
        others == active \ {"vgg"}
    IN IF "vgg" \in active /\ Cardinality(active) > 1
       THEN [d \in DescSet |->
                IF d = "vgg" THEN VggShare
                ELSE IF d \in others THEN RemainingShare \div Cardinality(others)
                ELSE w[d]]
       ELSE w

\* Variant of ScoreToPercentage: the lower clamp max(0.0, ..) is missing.
ScoreToPercentageNoFloor(es_score) ==
    LET cosine_similarity == ((es_score * 2 - SimScale) * PctScale) \div SimScale
    IN Min(PctScale, cosine_similarity)

\* main.py:306-313: Elasticsearch score -> percentage (tenths of a percent)
ScoreToPercentage(es_score) ==
    LET cosine_similarity == ((es_score * 2 - SimScale) * PctScale) \div SimScale
    IN Min(PctScale, Max(0, cosine_similarity))

\* Variant of ManualPercentage: the (1 + cosine) / 2 similarity is taken for
\* the cosine.
ManualPercentageOfSimilarity(query_vec, doc_features) ==
    IF Norm(query_vec) > 0 /\ Norm(doc_features) > 0
    THEN Min(PctScale, Max(0, (PctScale + Cosine(query_vec, doc_features)) \div 2))
    ELSE 0

\* main.py:384-404: percentage of a stored vector against the query vector
ManualPercentage(query_vec, doc_features) ==
    IF Norm(query_vec) > 0 /\ Norm(doc_features) > 0
    THEN Min(PctScale, Max(0, Cosine(query_vec, doc_features)))
    ELSE 0

\* Variant of GlobalMatch: the mean is taken over all six descriptors, an
\* absent one counting as 0.
GlobalMatchOverAll(p) ==
    IF DOMAIN p = {} THEN 0
    ELSE RoundDiv(SumFn(p, DOMAIN p), Cardinality(DescSet))

\* round(sum(p.values()) / len(p), 1) if p else 0    (main.py:351, 408)
GlobalMatch(p) ==
    IF DOMAIN p = {} THEN 0
    ELSE RoundDiv(SumFn(p, DOMAIN p), Cardinality(DOMAIN p))

\* position of image_id among the keys of the dict, 0 if absent
KeyIndex(results, image_id) ==
    IF \E i \in 1..Len(results) : results[i].image_id = image_id
    THEN CHOOSE i \in 1..Len(results) : results[i].image_id = image_id
    ELSE 0

RECURSIVE StoreHitsAppending(_, _, _, _)
\* Variant of StoreHits: every hit opens an entry of its own, whether or not
\* the image already has one.
StoreHitsAppending(results, hits, desc_name, weight) ==
    IF hits = <<>> THEN results
    ELSE StoreHitsAppending(
            Append(results, [image_id |-> Head(hits).id,
                             descriptor_scores |-> (desc_name :> Head(hits).score),
                             weighted_scores |-> (desc_name :> Head(hits).score * weight),
                             descriptor_percentages |-> <<>>,
                             total_score |-> 0]),
            Tail(hits), desc_name, weight)

RECURSIVE StoreHits(_, _, _, _)
\* the loop over response["hits"]["hits"], main.py:267-279
StoreHits(results, hits, desc_name, weight) ==
    IF hits = <<>> THEN results
    ELSE LET hit == Head(hits)
             withKey ==
                 IF KeyIndex(results, hit.id) = 0
                 THEN Append(results, [image_id |-> hit.id,
                                       descriptor_scores |-> <<>>,
                                       weighted_scores |-> <<>>,
                                       descriptor_percentages |-> <<>>,
                                       total_score |-> 0])
                 ELSE results
             k == KeyIndex(withKey, hit.id)
             stored ==
                 [withKey EXCEPT
                    ![k].descriptor_scores = (desc_name :> hit.score) @@ @,
                    ![k].weighted_scores = (desc_name :> hit.score * weight) @@ @]
         IN StoreHits(stored, Tail(hits), desc_name, weight)

\* main.py:322-329: the record can be shown
PassesFilter(source) ==
    /\ source.flickr_farm # ""
    /\ source.flickr_server # ""
    /\ source.flickr_secret # ""
    /\ source.image_status # "download_failed"

\* Variant of Scored: the total is the sum of the raw scores, without the weights.
ScoredUnweighted(data) ==
    [data EXCEPT
        !.total_score = SumFn(data.descriptor_scores, DOMAIN data.descriptor_scores),
        !.descriptor_percentages =
            [d \in DOMAIN data.descriptor_scores |->
                ScoreToPercentage(data.descriptor_scores[d])]]

\* main.py:289-316: total_score and descriptor_percentages of one entry
Scored(data) ==
    [data EXCEPT
        !.total_score = SumFn(data.weighted_scores, DOMAIN data.weighted_scores),
        !.descriptor_percentages =
            [d \in DOMAIN data.descriptor_scores |->
                ScoreToPercentage(data.descriptor_scores[d])]]

\* main.py:333-352: the entry appended to combined_results
CombinedEntry(data) ==
    [image_id |-> data.image_id,
     score |-> data.total_score,
     descriptor_scores |-> data.descriptor_percentages,
     global_match |-> GlobalMatch(data.descriptor_percentages)]

RECURSIVE InsertDescUnstable(_, _)
\* Variant of InsertDesc: x is placed before the elements of equal score, as
\* an ascending sort followed by a reversal does.
InsertDescUnstable(sorted, x) ==
    IF sorted = <<>> THEN <<x>>
    ELSE IF Head(sorted).score > x.score
         THEN <<Head(sorted)>> \o InsertDescUnstable(Tail(sorted), x)
         ELSE <<x>> \o sorted

RECURSIVE InsertDesc(_, _)
\* x placed after every element whose score is >= its own
InsertDesc(sorted, x) ==
    IF sorted = <<>> THEN <<x>>
    ELSE IF Head(sorted).score >= x.score
         THEN <<Head(sorted)>> \o InsertDesc(Tail(sorted), x)
         ELSE <<x>> \o sorted

RECURSIVE SortByScore(_)
\* combined_results.sort(key=score, reverse=True): a stable sort (main.py:355)
SortByScore(results) ==
    IF results = <<>> THEN <<>>
    ELSE InsertDesc(SortByScore(SubSeq(results, 1, Len(results) - 1)),
                    results[Len(results)])

\* combined_results[:top_k], main.py:358
Truncate(results, top_k) == SubSeq(results, 1, Min(top_k, Len(results)))

RECURSIVE FilterSeq(_, _)
\* the entries of all_results that reach combined_results, in dict order
FilterSeq(results, docs) ==
    IF results = <<>> THEN <<>>
    ELSE (IF PassesFilter(Source(docs, Head(results).image_id))
          THEN <<CombinedEntry(Head(results))>> ELSE <<>>)
         \o FilterSeq(Tail(results), docs)

\* main.py:372-404: complete_scores of one candidate
CompleteScores(data, source, w) ==
    [d \in {x \in DescSet : w[x] > 0 /\ HasField(source, x)} |->
        IF d \in DOMAIN data.descriptor_percentages
        THEN data.descriptor_percentages[d]
        ELSE ManualPercentage(QueryVec(d), source.vectors[FieldName(d)])]

\* main.py:364-410: one candidate after the second pass
Completed(candidate, data, source, w) ==
    [candidate EXCEPT
        !.descriptor_scores = CompleteScores(data, source, w),
        !.global_match = GlobalMatch(CompleteScores(data, source, w))]

-----------------------------------------------------------------------------
(* search_by_multi_descriptor: the handler as a state machine *)

\* requested weights: the on/off combinations with at most MaxActive
\* descriptors on, and the request defaults
WeightChoices ==
    {w \in [DescSet -> {0, 250}] : Cardinality({d \in DescSet : w[d] > 0}) <= MaxActive}
        \cup {DefaultWeights}

ImageKinds == {"valid", "bad_base64", "bad_image"}

NoResponse == [status |-> 0, results |-> <<>>, detail |-> ""]

\* the value of `image` while a search endpoint serves (the endpoints of
\* main.py do not call utils.extract_all_descriptors)
NoImage == [channels |-> 3, size |-> 128, pattern_codes |-> {}, keypoints |-> 0,
            fault |-> "none"]

\* the value of hrequest while the multi-descriptor endpoint serves
NoHybridRequest == [image_data |-> "valid", top_k |-> 1, text_weight |-> 0, image_weight |-> 0]

\* main.py:433-437: what the outer `except Exception` turns any exception
\* raised inside the try block into (HTTPException included)
OuterExcept(detail) ==
    [status |-> 500, results |-> <<>>, detail |-> detail]

\* main.py:418-431
SuccessResponse(final_results) ==
    [status |-> 200, results |-> final_results, detail |-> ""]

\* the Faiss engine and the index builder are not in use
FaissIdle ==
    /\ database = <<>>
    /\ image_dir = <<>>
    /\ search_engine = [indexes |-> <<>>, id_mappings |-> <<>>]
    /\ index_files = <<>>
    /\ query = [descriptor_name |-> "", query_vector |-> <<>>, top_k |-> 0]
    /\ found = [image_ids |-> <<>>, distances |-> <<>>]

\* the backfill script is not running
BackfillIdle ==
    /\ args = [batch_size |-> 1, force |-> FALSE, offset |-> 0, limit |-> 0, workers |-> 1]
    /\ es_docs = <<>>
    /\ scroll_hits = <<>>
    /\ scrolled = 0
    /\ documents_seen = 0
    /\ processed = 0
    /\ errors = 0
    /\ skipped = 0
    /\ batch_docs = <<>>
    /\ futures = <<>>
    /\ updates = <<>>
    /\ considered = <<>>
    /\ downloaded = {}
    /\ bulk_items = <<>>
    /\ scroll_cleared = FALSE

\* a multi-descriptor request arrives; the index is one of `indexes`
MultiInit(indexes) ==
    /\ request \in [image_data : ImageKinds, top_k : 1..MaxTopK, weights : WeightChoices]
    /\ corpus \in indexes
    /\ pc = "decode"
    /\ weights = request.weights
    /\ idx = 1
    /\ calls = [d \in DescSet |-> 0]
    /\ failed = {}
    /\ all_results = <<>>
    /\ top_candidates = <<>>
    /\ response = NoResponse
    /\ handler = "multi"
    /\ hrequest = NoHybridRequest
    /\ cv_features = TRUE
    /\ text_results = <<>>
    /\ image = NoImage
    /\ descriptor_names = <<>>
    /\ features = <<>>
    /\ BackfillIdle
    /\ FaissIdle

Init == MultiInit(Corpora)

\* main.py:176-197: decode and validate the image; the HTTPException(400) is
\* raised inside the outer try block
DecodeImage ==
    /\ pc = "decode"
    /\ IF request.image_data = "valid"
       THEN /\ pc' = "extract"
            /\ UNCHANGED response
       ELSE /\ pc' = "done"
            /\ response' = OuterExcept(IF request.image_data = "bad_base64"
                                       THEN "400: Invalid base64 image data"
                                       ELSE "400: Invalid image file")
    /\ UNCHANGED <<request, corpus, weights, idx, calls, failed, all_results,
                   top_candidates>>
    /\ UNCHANGED hvars
    /\ UNCHANGED xvars
    /\ UNCHANGED bvars
    /\ UNCHANGED fvars

\* main.py:201 and 1000-1043: extract_all_descriptors returns or raises
ExtractDescriptors ==
    /\ pc = "extract"
    /\ \E ok \in BOOLEAN :
          IF ok
          THEN /\ pc' = "rebalance"
               /\ UNCHANGED response
          ELSE /\ pc' = "done"
               /\ response' = OuterExcept("500: Descriptor extraction failed")
    /\ UNCHANGED <<request, corpus, weights, idx, calls, failed, all_results,
                   top_candidates>>
    /\ UNCHANGED hvars
    /\ UNCHANGED xvars
    /\ UNCHANGED bvars
    /\ UNCHANGED fvars

\* main.py:208-232
Rebalance ==
    /\ pc = "rebalance"
    /\ weights' = RebalancedWeights(request.weights)
    /\ idx' = 1
    /\ pc' = "search"
    /\ UNCHANGED <<request, corpus, calls, failed, all_results, top_candidates,
                   response>>
    /\ UNCHANGED hvars
    /\ UNCHANGED xvars
    /\ UNCHANGED bvars
    /\ UNCHANGED fvars

\* the for loop of main.py:247 moves on to the next descriptor_configs entry
NextIteration ==
    /\ idx' = idx + 1
    /\ pc' = IF idx + 1 > Len(Desc) THEN "combine" ELSE "search"
    /\ UNCHANGED response

\* Variant of OnSearchException: the exception of one search reaches the outer
\* except clause.
OnSearchExceptionAborts ==
    /\ pc' = "done"
    /\ idx' = idx
    /\ response' = OuterExcept("500: search failed")

\* Variant of OnSearchException: the loop stays at the descriptor whose search
\* raised, so that its search is issued again.
OnSearchExceptionRetries ==
    /\ pc' = "search"
    /\ idx' = idx
    /\ UNCHANGED response

\* main.py:281-283: the except clause around one descriptor's search
OnSearchException == NextIteration

\* main.py:248-249
SkipDescriptor ==
    /\ pc = "search"
    /\ weights[Desc[idx]] <= 0
    /\ NextIteration
    /\ UNCHANGED <<request, corpus, weights, calls, failed, all_results,
                   top_candidates>>
    /\ UNCHANGED hvars
    /\ UNCHANGED xvars
    /\ UNCHANGED bvars
    /\ UNCHANGED fvars

\* main.py:251-279: es.search returns
SearchReturns ==
    /\ pc = "search"
    /\ weights[Desc[idx]] > 0
    /\ calls' = [calls EXCEPT ![Desc[idx]] = @ + 1]
    /\ all_results' = StoreHits(all_results,
                                KnnSearch(corpus, Desc[idx], request.top_k * 2),
                                Desc[idx], weights[Desc[idx]])
    /\ NextIteration
    /\ UNCHANGED <<request, corpus, weights, failed, top_candidates>>
    /\ UNCHANGED hvars
    /\ UNCHANGED xvars
    /\ UNCHANGED bvars
    /\ UNCHANGED fvars

\* main.py:264 and 281-283: es.search raises
SearchRaises ==
    /\ pc = "search"
    /\ weights[Desc[idx]] > 0
    /\ calls' = [calls EXCEPT ![Desc[idx]] = @ + 1]
    /\ failed' = failed \cup {Desc[idx]}
    /\ OnSearchException
    /\ UNCHANGED <<request, corpus, weights, all_results, top_candidates>>
    /\ UNCHANGED hvars
    /\ UNCHANGED xvars
    /\ UNCHANGED bvars
    /\ UNCHANGED fvars

\* all_results with total_score and descriptor_percentages set (main.py:287-316)
ScoredResults(results) == [i \in 1..Len(results) |-> Scored(results[i])]

\* main.py:285-358: combined_results, sorted, cut to top_k
TopCandidates(results, docs, top_k) ==
    Truncate(SortByScore(FilterSeq(results, docs)), top_k)

CombineResults ==
    /\ pc = "combine"
    /\ all_results' = ScoredResults(all_results)
    /\ top_candidates' = TopCandidates(ScoredResults(all_results), corpus, request.top_k)
    /\ pc' = "second_pass"
    /\ UNCHANGED <<request, corpus, weights, idx, calls, failed, response>>
    /\ UNCHANGED hvars
    /\ UNCHANGED xvars
    /\ UNCHANGED bvars
    /\ UNCHANGED fvars

\* Variant of SecondPassResults: the completed candidates come out in reverse
\* order.
SecondPassResultsReversed(candidates, results, docs, w) ==
    [i \in 1..Len(candidates) |->
        Completed(candidates[Len(candidates) + 1 - i],
                  results[KeyIndex(results, candidates[Len(candidates) + 1 - i].image_id)],
                  Source(docs, candidates[Len(candidates) + 1 - i].image_id), w)]

\* main.py:364-410 over all of top_candidates
SecondPassResults(candidates, results, docs, w) ==
    [i \in 1..Len(candidates) |->
        Completed(candidates[i],
                  results[KeyIndex(results, candidates[i].image_id)],
                  Source(docs, candidates[i].image_id), w)]

SecondPass ==
    /\ pc = "second_pass"
    /\ top_candidates' = SecondPassResults(top_candidates, all_results, corpus, weights)
    /\ pc' = "respond"
    /\ UNCHANGED <<request, corpus, weights, idx, calls, failed, all_results,
                   response>>
    /\ UNCHANGED hvars
    /\ UNCHANGED xvars
    /\ UNCHANGED bvars
    /\ UNCHANGED fvars

\* main.py:412-431
Respond ==
    /\ pc = "respond"
    /\ response' = SuccessResponse(top_candidates)
    /\ pc' = "done"
    /\ UNCHANGED <<request, corpus, weights, idx, calls, failed, all_results,
                   top_candidates>>
    /\ UNCHANGED hvars
    /\ UNCHANGED xvars
    /\ UNCHANGED bvars
    /\ UNCHANGED fvars

Next ==
    \/ DecodeImage
    \/ ExtractDescriptors
    \/ Rebalance
    \/ SkipDescriptor
    \/ SearchReturns
    \/ SearchRaises
    \/ CombineResults
    \/ SecondPass
    \/ Respond

Spec == Init /\ [][Next]_vars

\* a multi-descriptor request whose image is one of the indexed images
InitIdentical == MultiInit(IdenticalCorpora)

SpecIdentical == InitIdentical /\ [][Next]_vars

-----------------------------------------------------------------------------
(* search_hybrid (main.py:715-957) *)

\* visual_score, text_score and the combined score are kept in 1/VisualScale
\* of a tenth of a percent, which holds every mean of up to six percentages
VisualScale == 120

\* BM25 _score of a document for the text query (0: the document does not
\* match); title and tags come from the ingested row
TextScore(kind) ==
    CASE kind = "partial" -> 8
      [] kind = "no_secret" -> 4
      [] kind = "full" -> 0
      [] kind = "download_failed" -> 8
      [] kind = "identical" -> 4
      [] kind = "extraction_failed" -> 6

RECURSIVE TopTextHits(_, _, _)
\* the `size` best text matches among the documents S, best first
TopTextHits(docs, S, size) ==
    IF S = {} \/ size <= 0 THEN <<>>
    ELSE LET best == CHOOSE i \in S :
                        \A j \in S : \/ TextScore(docs[i]) > TextScore(docs[j])
                                     \/ (TextScore(docs[i]) = TextScore(docs[j]) /\ i <= j)
         IN <<[id |-> best, score |-> TextScore(docs[best])]>>
                \o TopTextHits(docs, S \ {best}, size - 1)

\* text_response["hits"]["hits"] of the multi_match query, main.py:783-802
TextSearch(docs, size) ==
    TopTextHits(docs, {i \in DOMAIN docs : TextScore(docs[i]) > 0}, size)

\* main.py:803-812: text_results, BM25 normalized by max_score to 0-100%
TextResults(hits) ==
    LET max_text_score == IF hits = <<>> THEN 1 ELSE hits[1].score
    IN [h \in 1..Len(hits) |->
           [image_id |-> hits[h].id,
            text_score |-> (hits[h].score * PctScale * VisualScale) \div max_text_score]]

\* text_results.get(image_id, {}).get("text_score", 0.0), main.py:856
TextScoreOf(texts, image_id) ==
    IF \E h \in 1..Len(texts) : texts[h].image_id = image_id
    THEN texts[CHOOSE h \in 1..Len(texts) : texts[h].image_id = image_id].text_score
    ELSE 0

\* main.py:849-850: Elasticsearch score -> percentage (tenths of a percent)
HybridPercentage(es_score) ==
    LET cosine_similarity == ((es_score * 2 - SimScale) * PctScale) \div SimScale
    IN Max(0, Min(PctScale, cosine_similarity))

RECURSIVE HybridStoreHits(_, _, _, _)
\* the loop over response["hits"]["hits"], main.py:844-859
HybridStoreHits(results, hits, desc_name, texts) ==
    IF hits = <<>> THEN results
    ELSE LET hit == Head(hits)
             withKey ==
                 IF KeyIndex(results, hit.id) = 0
                 THEN Append(results, [image_id |-> hit.id,
                                       descriptor_scores |-> <<>>,
                                       text_score |-> TextScoreOf(texts, hit.id)])
                 ELSE results
             k == KeyIndex(withKey, hit.id)
             stored ==
                 [withKey EXCEPT
                    ![k].descriptor_scores = (desc_name :> HybridPercentage(hit.score)) @@ @]
         IN HybridStoreHits(stored, Tail(hits), desc_name, texts)

RECURSIVE MergeTextResults(_, _)
\* main.py:866-872: text matches no descriptor search returned
MergeTextResults(results, texts) ==
    IF texts = <<>> THEN results
    ELSE MergeTextResults(
            IF KeyIndex(results, Head(texts).image_id) = 0
            THEN Append(results, [image_id |-> Head(texts).image_id,
                                  descriptor_scores |-> <<>>,
                                  text_score |-> Head(texts).text_score])
            ELSE results,
            Tail(texts))

\* main.py:878-891: visual_score of one candidate, in 1/VisualScale
HybridVisualScore(desc_scores) ==
    LET keys == DOMAIN desc_scores
        others == keys \ {"vgg"}
    IN IF keys = {} THEN 0
       ELSE IF "vgg" \in keys /\ Cardinality(keys) > 1
            THEN (desc_scores["vgg"] * VisualScale) \div 2
                 + (SumFn(desc_scores, others) * VisualScale)
                       \div (2 * Cardinality(others))
            ELSE (SumFn(desc_scores, keys) * VisualScale) \div Cardinality(keys)

\* Variant of HybridEntry: the two weights are normalized to sum to 1 before
\* they are applied.
HybridEntryNormalized(data, text_weight, image_weight) ==
    LET total == IF text_weight + image_weight = 0 THEN 1 ELSE text_weight + image_weight
    IN [image_id |-> data.image_id,
        score |-> HybridVisualScore(data.descriptor_scores)
                      * ((image_weight * WeightScale) \div total)
                    + data.text_score * ((text_weight * WeightScale) \div total),
        text_match |-> RoundDiv(data.text_score, VisualScale),
        visual_match |-> RoundDiv(HybridVisualScore(data.descriptor_scores), VisualScale),
        descriptor_scores |-> data.descriptor_scores,
        global_match |-> RoundDiv(HybridVisualScore(data.descriptor_scores) + data.text_score,
                                  2 * VisualScale)]

\* main.py:893-933: the entry appended to combined_results
HybridEntry(data, text_weight, image_weight) ==
    [image_id |-> data.image_id,
     score |-> HybridVisualScore(data.descriptor_scores) * image_weight
                 + data.text_score * text_weight,
     text_match |-> RoundDiv(data.text_score, VisualScale),
     visual_match |-> RoundDiv(HybridVisualScore(data.descriptor_scores), VisualScale),
     descriptor_scores |-> data.descriptor_scores,
     global_match |-> RoundDiv(HybridVisualScore(data.descriptor_scores) + data.text_score,
                               2 * VisualScale)]

RECURSIVE HybridFilterSeq(_, _, _, _)
\* the entries of all_results that reach combined_results, in dict order
HybridFilterSeq(results, docs, text_weight, image_weight) ==
    IF results = <<>> THEN <<>>
    ELSE (IF PassesFilter(Source(docs, Head(results).image_id))
          THEN <<HybridEntry(Head(results), text_weight, image_weight)>> ELSE <<>>)
         \o HybridFilterSeq(Tail(results), docs, text_weight, image_weight)

\* main.py:936
HybridSorted(results, docs, text_weight, image_weight) ==
    SortByScore(HybridFilterSeq(results, docs, text_weight, image_weight))

\* text_weight and image_weight of the requests considered (0.5 is the default)
HybridWeightChoices == {0, 500}

\* <<text_weight, image_weight>> of the requests considered: the on/off
\* combinations and one request that favours the image without its weights
\* summing to 1
HybridWeightPairs == (HybridWeightChoices \X HybridWeightChoices) \cup {<<250, 500>>}

\* a hybrid request arrives; the index is one of `indexes`
HybridInit(indexes) ==
    /\ handler = "hybrid"
    /\ hrequest \in {[image_data |-> im, top_k |-> k,
                      text_weight |-> w[1], image_weight |-> w[2]] :
                        im \in ImageKinds, k \in 1..MaxTopK, w \in HybridWeightPairs}
    /\ request = [image_data |-> "valid", top_k |-> 1, weights |-> [d \in DescSet |-> 0]]
    /\ corpus \in indexes
    /\ pc = "h_decode"
    /\ weights = [d \in DescSet |-> 0]
    /\ idx = 1
    /\ calls = [d \in DescSet |-> 0]
    /\ failed = {}
    /\ all_results = <<>>
    /\ top_candidates = <<>>
    /\ response = NoResponse
    /\ cv_features = TRUE
    /\ text_results = <<>>
    /\ image = NoImage
    /\ descriptor_names = <<>>
    /\ features = <<>>
    /\ BackfillIdle
    /\ FaissIdle

HInit == HybridInit(Corpora)

\* main.py:953-957: the outer `except Exception` of search_hybrid
HybridOuterExcept(detail) ==
    [status |-> 500, results |-> <<>>, detail |-> detail]

\* main.py:733-756
HDecodeImage ==
    /\ pc = "h_decode"
    /\ IF hrequest.image_data = "valid"
       THEN /\ pc' = "h_vgg"
            /\ UNCHANGED response
       ELSE /\ pc' = "done"
            /\ response' = HybridOuterExcept(IF hrequest.image_data = "bad_base64"
                                             THEN "400: Invalid base64 image data"
                                             ELSE "400: Invalid image file")
    /\ UNCHANGED <<request, corpus, weights, idx, calls, failed, all_results,
                   top_candidates, hvars>>
    /\ UNCHANGED xvars
    /\ UNCHANGED bvars
    /\ UNCHANGED fvars

\* main.py:762 and 960-997: extract_vgg_features returns or raises
HExtractVgg ==
    /\ pc = "h_vgg"
    /\ \E ok \in BOOLEAN :
          IF ok
          THEN /\ pc' = "h_cv"
               /\ UNCHANGED response
          ELSE /\ pc' = "done"
               /\ response' = HybridOuterExcept("500: Feature extraction failed")
    /\ UNCHANGED <<request, corpus, weights, idx, calls, failed, all_results,
                   top_candidates, hvars>>
    /\ UNCHANGED xvars
    /\ UNCHANGED bvars
    /\ UNCHANGED fvars

\* main.py:770-778: the CV descriptors, all None when an extractor raises
HExtractCv ==
    /\ pc = "h_cv"
    /\ \E ok \in BOOLEAN : cv_features' = ok
    /\ pc' = "h_text"
    /\ UNCHANGED <<request, corpus, weights, idx, calls, failed, all_results,
                   top_candidates, response, handler, hrequest, text_results>>
    /\ UNCHANGED xvars
    /\ UNCHANGED bvars
    /\ UNCHANGED fvars

\* main.py:801: text_weight <= 0, no text search
HTextSkipped ==
    /\ pc = "h_text"
    /\ hrequest.text_weight <= 0
    /\ pc' = "h_search"
    /\ UNCHANGED <<request, corpus, weights, idx, calls, failed, all_results,
                   top_candidates, response, hvars>>
    /\ UNCHANGED xvars
    /\ UNCHANGED bvars
    /\ UNCHANGED fvars

\* main.py:801-812: the text search returns
HTextReturns ==
    /\ pc = "h_text"
    /\ hrequest.text_weight > 0
    /\ text_results' = TextResults(TextSearch(corpus, hrequest.top_k * 3))
    /\ pc' = "h_search"
    /\ UNCHANGED <<request, corpus, weights, idx, calls, failed, all_results,
                   top_candidates, response, handler, hrequest, cv_features>>
    /\ UNCHANGED xvars
    /\ UNCHANGED bvars
    /\ UNCHANGED fvars

\* main.py:802: the text search raises, outside any inner try
HTextRaises ==
    /\ pc = "h_text"
    /\ hrequest.text_weight > 0
    /\ pc' = "done"
    /\ response' = HybridOuterExcept("text search failed")
    /\ UNCHANGED <<request, corpus, weights, idx, calls, failed, all_results,
                   top_candidates, hvars>>
    /\ UNCHANGED xvars
    /\ UNCHANGED bvars
    /\ UNCHANGED fvars

\* the for loop of main.py:825 moves on to the next descriptor_configs entry
HNextIteration ==
    /\ idx' = idx + 1
    /\ pc' = IF idx + 1 > Len(Desc) THEN "h_combine" ELSE "h_search"

\* main.py:826-827: features is None
HSkipDescriptor ==
    /\ pc = "h_search"
    /\ Desc[idx] # "vgg" /\ ~cv_features
    /\ HNextIteration
    /\ UNCHANGED <<request, corpus, weights, calls, failed, all_results,
                   top_candidates, response, hvars>>
    /\ UNCHANGED xvars
    /\ UNCHANGED bvars
    /\ UNCHANGED fvars

\* main.py:829-859: es.search returns
HSearchReturns ==
    /\ pc = "h_search"
    /\ Desc[idx] = "vgg" \/ cv_features
    /\ calls' = [calls EXCEPT ![Desc[idx]] = @ + 1]
    /\ all_results' = HybridStoreHits(all_results,
                                      KnnSearch(corpus, Desc[idx], hrequest.top_k * 3),
                                      Desc[idx], text_results)
    /\ HNextIteration
    /\ UNCHANGED <<request, corpus, weights, failed, top_candidates, response, hvars>>
    /\ UNCHANGED xvars
    /\ UNCHANGED bvars
    /\ UNCHANGED fvars

\* main.py:842 and 861-863: es.search raises
HSearchRaises ==
    /\ pc = "h_search"
    /\ Desc[idx] = "vgg" \/ cv_features
    /\ calls' = [calls EXCEPT ![Desc[idx]] = @ + 1]
    /\ failed' = failed \cup {Desc[idx]}
    /\ HNextIteration
    /\ UNCHANGED <<request, corpus, weights, all_results, top_candidates, response,
                   hvars>>
    /\ UNCHANGED xvars
    /\ UNCHANGED bvars
    /\ UNCHANGED fvars

\* main.py:865-936: merge the text matches, score, filter and sort
HCombineResults ==
    /\ pc = "h_combine"
    /\ all_results' = MergeTextResults(all_results, text_results)
    /\ top_candidates' = HybridSorted(MergeTextResults(all_results, text_results), corpus,
                                      hrequest.text_weight, hrequest.image_weight)
    /\ pc' = "h_respond"
    /\ UNCHANGED <<request, corpus, weights, idx, calls, failed, response, hvars>>
    /\ UNCHANGED xvars
    /\ UNCHANGED bvars
    /\ UNCHANGED fvars

\* main.py:941-951
HRespond ==
    /\ pc = "h_respond"
    /\ response' = [status |-> 200,
                    results |-> Truncate(top_candidates, hrequest.top_k),
                    detail |-> ""]
    /\ pc' = "done"
    /\ UNCHANGED <<request, corpus, weights, idx, calls, failed, all_results,
                   top_candidates, hvars>>
    /\ UNCHANGED xvars
    /\ UNCHANGED bvars
    /\ UNCHANGED fvars

HNext ==
    \/ HDecodeImage
    \/ HExtractVgg
    \/ HExtractCv
    \/ HTextSkipped
    \/ HTextReturns
    \/ HTextRaises
    \/ HSkipDescriptor
    \/ HSearchReturns
    \/ HSearchRaises
    \/ HCombineResults
    \/ HRespond

\* the hybrid endpoint alone
SpecHybrid == HInit /\ [][HNext]_vars

\* a request to either endpoint
SearchInit == Init \/ HInit

SearchNext == Next \/ HNext

SpecSearch == SearchInit /\ [][SearchNext]_vars

\* a request to either endpoint on an index holding a document whose feature
\* extraction failed at ingestion
InitExtractionFailed ==
    MultiInit(ExtractionFailedCorpora) \/ HybridInit(ExtractionFailedCorpora)

SpecExtractionFailed == InitExtractionFailed /\ [][SearchNext]_vars

-----------------------------------------------------------------------------
(* utils/descriptor_extractor.py: the classical extractors *)

(* A vector is a sequence of integers.  0 stands for the value 0.0; a      *)
(* positive entry names the quantity the entry holds (which bin, which raw *)
(* feature, which pooled dimension).  The final L2 normalization scales    *)
(* every entry by one factor and changes neither the length of a vector    *)
(* nor which of its entries are 0.                                         *)

\* ColorHistogramExtractor(bins=8), descriptor_extractor.py:378
ColorBins == 8
\* LBPExtractor(n_points=8, radius=1), descriptor_extractor.py:379
LbpPoints == 8
\* HOGExtractor defaults, descriptor_extractor.py:134-136
HogOrientations == 9
PixelsPerCell == 8
CellsPerBlock == 3
\* standard_size of HOGExtractor.extract, descriptor_extractor.py:163
StandardSize == 128
\* the length HOGExtractor.extract pads or truncates to, descriptor_extractor.py:179-184
HogDimension == 81
\* EdgeHistogramExtractor(bins=64), descriptor_extractor.py:381
EdgeBins == 64
\* SIFTExtractor(n_features=100, descriptor_size=128), descriptor_extractor.py:382
SiftDescriptorSize == 128
\* width of one keypoint descriptor computed by cv2.SIFT (detectAndCompute)
SiftKeypointWidth == 128
\* entries of std_pool are named StdPool + j, entries of mean_pool j
StdPool == 1000

\* the names extract_all_descriptors has an extractor for (its `extractors`)
Known == {"color", "lbp", "hog", "edge_histogram", "sift"}

\* the names a caller may ask for: settings.AVAILABLE_DESCRIPTORS admits
\* "mpeg7" (config.py:18), which extract_all_descriptors does not know
NameList == <<"color", "lbp", "hog", "edge_histogram", "sift", "mpeg7">>

\* Variant of ZeroVector: the failure path returns an empty array.
EmptyVector(n) == <<>>

\* np.zeros(n)
ZeroVector(n) == [i \in 1..n |-> 0]

\* np.pad(v, (0, n))
Pad(v, n) == v \o [i \in 1..n |-> 0]

\* v[:n]
Take(v, n) == SubSeq(v, 1, Min(n, Len(v)))

\* v is all zeros
IsZero(v) == \A i \in 1..Len(v) : v[i] = 0

\* the largest element of a non-empty set of integers
MaxOf(S) == CHOOSE x \in S : \A y \in S : y <= x

\* an internal step of the extractor `name` raises on this image: an array of
\* two channels (PIL mode LA) makes cv2.cvtColor and cv2.calcHist raise in
\* every extractor; image.fault names an extractor a later step of which
\* raises
Raises(img, name) == img.channels = 2 \/ img.fault = name

\* ColorHistogramExtractor.extract, descriptor_extractor.py:33-72
ColorExtract(img) ==
    IF Raises(img, "color") THEN ZeroVector(ColorBins * 3)
    ELSE LET calcHist(i) == [b \in 1..ColorBins |-> (i - 1) * ColorBins + b]
         IN calcHist(1) \o calcHist(2) \o calcHist(3)

\* self.dimension of LBPExtractor (method 'uniform'), descriptor_extractor.py:83
LbpDimension == LbpPoints + 2

\* np.histogram(lbp.ravel(), bins=n_bins, range=(0, n_bins)) with
\* n_bins = int(lbp.max() + 1), descriptor_extractor.py:111-117; codes are
\* the pattern codes that occur in the image
LbpHistogram(codes) ==
    LET n_bins == MaxOf(codes) + 1
    IN [b \in 1..n_bins |-> IF (b - 1) \in codes THEN b ELSE 0]

\* LBPExtractor.extract, descriptor_extractor.py:85-126
LbpExtract(img) ==
    IF Raises(img, "lbp") THEN ZeroVector(LbpDimension)
    ELSE LbpHistogram(img.pattern_codes)

\* cv2.resize(gray, standard_size): the side of the resized image
Resize(size) == StandardSize

\* number of values skimage's hog(feature_vector=True) returns for a square
\* image: one block of cells_per_block^2 * orientations values per block
\* position
HogFeatureLength(size) ==
    LET n_cells == size \div PixelsPerCell
        n_blocks == n_cells - CellsPerBlock + 1
    IN IF n_blocks <= 0 THEN 0
       ELSE n_blocks * n_blocks * CellsPerBlock * CellsPerBlock * HogOrientations

\* Variant of FixLength: the vector is returned as computed.
KeepLength(v, n) == v

\* descriptor_extractor.py:179-184 (and 345-348): pad with zeros or truncate
\* to n values
FixLength(v, n) ==
    IF Len(v) < n THEN Pad(v, n - Len(v))
    ELSE IF Len(v) > n THEN Take(v, n)
    ELSE v

\* HOGExtractor.extract, descriptor_extractor.py:144-197
HogExtract(img) ==
    IF Raises(img, "hog") THEN ZeroVector(HogDimension)
    ELSE LET hog == [i \in 1..HogFeatureLength(Resize(img.size)) |-> i]
         IN FixLength(hog, HogDimension)

\* EdgeHistogramExtractor.extract, descriptor_extractor.py:210-255
EdgeExtract(img) ==
    IF Raises(img, "edge_histogram") THEN ZeroVector(EdgeBins)
    ELSE [b \in 1..EdgeBins |-> b]

\* Variant of MeanStdParts: the two pooled vectors are concatenated whole.
MeanStdPartsWhole(mean_pool, std_pool, half_dim) == mean_pool \o std_pool

\* descriptor_extractor.py:331-342: the first half_dim dimensions of mean_pool
\* followed by the first half_dim dimensions of std_pool
MeanStdParts(mean_pool, std_pool, half_dim) ==
    IF Len(mean_pool) >= half_dim
    THEN Take(mean_pool, half_dim) \o Take(std_pool, half_dim)
    ELSE Pad(mean_pool, half_dim - Len(mean_pool))
            \o Pad(std_pool, half_dim - Len(std_pool))

\* SIFTExtractor.extract, descriptor_extractor.py:282-359; np.std over a
\* single keypoint is 0 in every dimension
SiftExtract(img) ==
    IF Raises(img, "sift") THEN ZeroVector(SiftDescriptorSize)
    ELSE IF img.keypoints = 0 THEN ZeroVector(SiftDescriptorSize)
    ELSE LET mean_pool == [j \in 1..SiftKeypointWidth |-> j]
             std_pool == [j \in 1..SiftKeypointWidth |->
                             IF img.keypoints > 1 THEN StdPool + j ELSE 0]
             half_dim == SiftDescriptorSize \div 2
         IN FixLength(MeanStdParts(mean_pool, std_pool, half_dim), SiftDescriptorSize)

\* extractors[name].extract(image)
Extract(name, img) ==
    CASE name = "color" -> ColorExtract(img)
      [] name = "lbp" -> LbpExtract(img)
      [] name = "hog" -> HogExtract(img)
      [] name = "edge_histogram" -> EdgeExtract(img)
      [] name = "sift" -> SiftExtract(img)

\* the dimension each extractor declares (color 24, lbp 10, hog 81, edge
\* histogram 64, sift 128)
DeclaredDimension(name) ==
    CASE name = "color" -> ColorBins * 3
      [] name = "lbp" -> LbpDimension
      [] name = "hog" -> HogDimension
      [] name = "edge_histogram" -> EdgeBins
      [] name = "sift" -> SiftDescriptorSize

\* scripts/elasticsearch_mapping.py:81-119: `dims` of the dense_vector field
\* that stores the descriptor `name`
MappingDims(name) ==
    CASE name = "color" -> 24
      [] name = "lbp" -> 10
      [] name = "hog" -> 81
      [] name = "edge_histogram" -> 64
      [] name = "sift" -> 64

-----------------------------------------------------------------------------
(* utils/descriptor_extractor.py: extract_all_descriptors *)

\* an image has at most MaxKeypoints SIFT keypoints
MaxKeypoints == 2
\* a caller asks for at most MaxNames descriptor names
MaxNames == 2

\* the sets of uniform-LBP pattern codes that occur in an image: a one-pixel
\* image (0 or 8 alone), a flat image (8 inside, 3 and 5 on the border) and a
\* textured image (every code, the non-uniform code 9 included)
PatternCodeSets == {{0}, {8}, {3, 5, 8}, 0..(LbpPoints + 1)}

\* the images considered: channels of the array (1: grayscale, 2: LA, 3: RGB,
\* 4: RGBA), side in pixels, LBP pattern codes, SIFT keypoints
Images ==
    [channels : 1..4, size : {64, 300}, pattern_codes : PatternCodeSets,
     keypoints : 0..MaxKeypoints, fault : {"none"} \cup Known]

\* the descriptor_names lists considered: up to MaxNames distinct names, in
\* any order
NameLists ==
    {[i \in 1..Len(s) |-> NameList[s[i]]] :
        s \in {t \in UNION {[1..n -> 1..Len(NameList)] : n \in 0..MaxNames} :
                  \A i \in DOMAIN t, j \in DOMAIN t : i # j => t[i] # t[j]}}

\* Variant of UnknownResult: an unknown name gets a zero vector.
UnknownResultZeros(name) == [name |-> name, is_none |-> FALSE, vector |-> <<0>>]

\* descriptor_extractor.py:393-395: results[name] = None
UnknownResult(name) == [name |-> name, is_none |-> TRUE, vector |-> <<>>]

\* descriptor_extractor.py:389: results[name] = extractors[name].extract(image)
KnownResult(name, img) == [name |-> name, is_none |-> FALSE, vector |-> Extract(name, img)]

\* a call of extract_all_descriptors(image, descriptor_names)
XInit ==
    /\ image \in Images
    /\ descriptor_names \in NameLists
    /\ features = <<>>
    /\ pc = "x_loop"
    /\ idx = 1
    /\ handler = "extract"
    /\ request = [image_data |-> "valid", top_k |-> 1, weights |-> [d \in DescSet |-> 0]]
    /\ hrequest = NoHybridRequest
    /\ corpus = <<>>
    /\ weights = [d \in DescSet |-> 0]
    /\ calls = [d \in DescSet |-> 0]
    /\ failed = {}
    /\ all_results = <<>>
    /\ top_candidates = <<>>
    /\ response = NoResponse
    /\ cv_features = TRUE
    /\ text_results = <<>>
    /\ BackfillIdle
    /\ FaissIdle

\* what the extractor actions leave alone
XUnchanged ==
    UNCHANGED <<request, corpus, weights, calls, failed, all_results, top_candidates,
                response, hvars, image, descriptor_names, bvars, fvars>>

\* descriptor_extractor.py:386-392: a name that has an extractor.  extract
\* catches every Exception itself, so the except clause of line 390 is not
\* reached.
XExtractKnown ==
    /\ pc = "x_loop"
    /\ idx <= Len(descriptor_names)
    /\ descriptor_names[idx] \in Known
    /\ features' = Append(features, KnownResult(descriptor_names[idx], image))
    /\ idx' = idx + 1
    /\ pc' = "x_loop"
    /\ XUnchanged

\* descriptor_extractor.py:393-395: a name without an extractor
XExtractUnknown ==
    /\ pc = "x_loop"
    /\ idx <= Len(descriptor_names)
    /\ descriptor_names[idx] \notin Known
    /\ features' = Append(features, UnknownResult(descriptor_names[idx]))
    /\ idx' = idx + 1
    /\ pc' = "x_loop"
    /\ XUnchanged

\* descriptor_extractor.py:397: return results
XReturn ==
    /\ pc = "x_loop"
    /\ idx > Len(descriptor_names)
    /\ pc' = "done"
    /\ UNCHANGED <<idx, features>>
    /\ XUnchanged

XNext ==
    \/ XExtractKnown
    \/ XExtractUnknown
    \/ XReturn

SpecExtract == XInit /\ [][XNext]_vars

-----------------------------------------------------------------------------
(* backend/scripts/add_all_descriptors.py: the descriptor backfill *)

\* the largest index, batch size, offset and limit explored
MaxIndexSize == 3
MaxBatchSize == 2
MaxOffset == 1
MaxLimit == 2

\* the sizes of the worker pool explored: one worker, and as many as a batch holds
PoolSizes == {1, MaxBatchSize}

\* add_all_descriptors.py:151 and 370: `limit` is None by default; None and 0
\* are both false in `if limit`
NoLimit == 0

\* add_all_descriptors.py:250: the five fields the skip test looks for
DescriptorFields ==
    {"color_histogram", "lbp_features", "hog_features", "edge_histogram", "sift_features"}

\* the `_source` of a document, as the set of descriptor fields it holds: a
\* document the ingestion left without SIFT, and a complete one
DocSources == {DescriptorFields \ {"sift_features"}, DescriptorFields}

\* Variant of HasAllDescriptors: `any` in place of `all`
HasAnyDescriptor(source) == \E key \in DescriptorFields : key \in source

\* add_all_descriptors.py:250: all(key in source for key in [...])
HasAllDescriptors(source) == \A key \in DescriptorFields : key \in source

\* add_all_descriptors.py:102-148: what process_single_document can come to:
\* descriptors to store, an exception of download_image, extract_all_cv_descriptors
\* returning None, or every vector being zero
Outcomes == {"ok", "download_error", "extraction_failed", "all_zero"}

\* add_all_descriptors.py:122-148: the dict process_single_document returns
ProcessSingleDocument(doc_id, outcome) ==
    [id |-> doc_id,
     descriptors |-> outcome = "ok",
     error |-> CASE outcome = "ok" -> ""
                 [] outcome = "download_error" -> "Failed to download image"
                 [] outcome = "extraction_failed" -> "Failed to extract descriptors"
                 [] outcome = "all_zero" -> "All descriptors are zero vectors"]

\* es.search / es.scroll with size = batch_size: the next page of the scroll,
\* as document positions in scroll order
NextHits(docs, pos, size) == [i \in 1..Min(size, Len(docs) - pos) |-> pos + i]

\* Variant of PrepareBatch: the limit is tested after the document is taken
RECURSIVE PrepareBatchLate(_, _, _, _)
PrepareBatchLate(a, docs, hs, st) ==
    IF hs = <<>> THEN st
    ELSE LET doc_id == Head(hs)
             seen == [st EXCEPT !.documents_seen = @ + 1,
                                !.considered = Append(@, doc_id)]
             took == IF ~a.force /\ HasAllDescriptors(docs[doc_id])
                     THEN [seen EXCEPT !.skipped = @ + 1]
                     ELSE [seen EXCEPT !.batch_docs = Append(@, doc_id)]
         IN IF a.limit # NoLimit /\ (took.documents_seen - a.offset) > a.limit
            THEN [took EXCEPT !.hits = <<>>]
            ELSE PrepareBatchLate(a, docs, Tail(hs), took)

\* add_all_descriptors.py:238-263: the `for hit in hits` loop over the rest hs
\* of the page; st holds the locals it changes
RECURSIVE PrepareBatch(_, _, _, _)
PrepareBatch(a, docs, hs, st) ==
    IF hs = <<>> THEN st
    ELSE IF a.limit # NoLimit /\ (st.documents_seen - a.offset) >= a.limit
         THEN [st EXCEPT !.hits = <<>>]
         ELSE LET doc_id == Head(hs)
                  seen == [st EXCEPT !.documents_seen = @ + 1,
                                     !.considered = Append(@, doc_id)]
              IN IF ~a.force /\ HasAllDescriptors(docs[doc_id])
                 THEN PrepareBatch(a, docs, Tail(hs), [seen EXCEPT !.skipped = @ + 1])
                 ELSE PrepareBatch(a, docs, Tail(hs),
                                   [seen EXCEPT !.batch_docs = Append(@, doc_id)])

\* Variant of CollectResult: a failed document is not counted
CollectResultUncounted(result, st) ==
    IF result.error # "" THEN st
    ELSE IF result.descriptors
         THEN [st EXCEPT !.updates = Append(@, result.id), !.processed = @ + 1]
         ELSE st

\* add_all_descriptors.py:275-289: the counting of one result; st holds the
\* locals it changes
CollectResult(result, st) ==
    IF result.error # "" THEN [st EXCEPT !.errors = @ + 1]
    ELSE IF result.descriptors
         THEN [st EXCEPT !.updates = Append(@, result.id), !.processed = @ + 1]
         ELSE [st EXCEPT !.errors = @ + 1]

\* the elements of a sequence
Range(s) == {s[i] : i \in DOMAIN s}

\* the futures a worker is running
Running == {d \in DOMAIN futures : futures[d] = "running"}

\* the futures the executor's queue still holds, first submitted first
Queued == SelectSeq(batch_docs, LAMBDA d : futures[d] = "pending")

\* every future of the batch has been taken from as_completed
AllCollected == \A d \in DOMAIN futures : futures[d] = "collected"

\* the values the other components' variables keep during a backfill run
BackfillOthersIdle ==
    /\ handler = "backfill"
    /\ request = [image_data |-> "valid", top_k |-> 1, weights |-> [d \in DescSet |-> 0]]
    /\ hrequest = NoHybridRequest
    /\ corpus = <<>>
    /\ weights = [d \in DescSet |-> 0]
    /\ idx = 1
    /\ calls = [d \in DescSet |-> 0]
    /\ failed = {}
    /\ all_results = <<>>
    /\ top_candidates = <<>>
    /\ response = NoResponse
    /\ cv_features = TRUE
    /\ text_results = <<>>
    /\ image = NoImage
    /\ descriptor_names = <<>>
    /\ features = <<>>

\* add_all_descriptors.py:151-207: process_documents is called and has issued
\* the initial es.search
BInit ==
    /\ args \in [batch_size : 1..MaxBatchSize, force : BOOLEAN, offset : 0..MaxOffset,
                 limit : 0..MaxLimit, workers : PoolSizes]
    /\ es_docs \in UNION {[1..n -> DocSources] : n \in 0..MaxIndexSize}
    /\ scroll_hits = NextHits(es_docs, 0, args.batch_size)
    /\ scrolled = Len(scroll_hits)
    /\ documents_seen = 0
    /\ processed = 0
    /\ errors = 0
    /\ skipped = 0
    /\ batch_docs = <<>>
    /\ futures = <<>>
    /\ updates = <<>>
    /\ considered = <<>>
    /\ downloaded = {}
    /\ bulk_items = <<>>
    /\ scroll_cleared = FALSE
    /\ pc = "b_offset"
    /\ BackfillOthersIdle
    /\ FaissIdle

\* what the backfill actions leave alone
BUnchanged ==
    UNCHANGED <<request, corpus, weights, idx, calls, failed, all_results, top_candidates,
                response, hvars, xvars, fvars, args, es_docs>>

\* add_all_descriptors.py:218-229: one round of the offset-skipping loop; the
\* page is scrolled on only while the offset has not been reached
BSkipOffset ==
    /\ pc = "b_offset"
    /\ args.offset > 0 /\ scroll_hits # <<>> /\ documents_seen < args.offset
    /\ LET seen == Min(args.offset, documents_seen + Len(scroll_hits))
           page == NextHits(es_docs, scrolled, args.batch_size)
       IN /\ documents_seen' = seen
          /\ IF seen < args.offset
             THEN scroll_hits' = page /\ scrolled' = scrolled + Len(page)
             ELSE UNCHANGED <<scroll_hits, scrolled>>
    /\ UNCHANGED <<pc, processed, errors, skipped, batch_docs, futures, updates,
                   considered, downloaded, bulk_items, scroll_cleared>>
    /\ BUnchanged

\* add_all_descriptors.py:216-218, 230-231: no offset, or the skipping loop ends
BStartProcessing ==
    /\ pc = "b_offset"
    /\ ~(args.offset > 0 /\ scroll_hits # <<>> /\ documents_seen < args.offset)
    /\ pc' = "b_batch"
    /\ UNCHANGED <<scroll_hits, scrolled, documents_seen, processed, errors, skipped, batch_docs,
                   futures, updates, considered, downloaded, bulk_items, scroll_cleared>>
    /\ BUnchanged

\* add_all_descriptors.py:234-268: the documents of the page are skipped or
\* gathered in batch_docs, and the batch is submitted to the executor
BPrepareBatch ==
    /\ pc = "b_batch"
    /\ scroll_hits # <<>>
    /\ LET st == PrepareBatch(args, es_docs, scroll_hits,
                              [hits |-> scroll_hits, documents_seen |-> documents_seen,
                               skipped |-> skipped, batch_docs |-> <<>>,
                               considered |-> considered])
       IN /\ scroll_hits' = st.hits
          /\ documents_seen' = st.documents_seen
          /\ skipped' = st.skipped
          /\ batch_docs' = st.batch_docs
          /\ considered' = st.considered
          /\ futures' = [d \in Range(st.batch_docs) |-> "pending"]
          /\ pc' = IF st.batch_docs # <<>> THEN "b_collect" ELSE "b_scroll"
    /\ updates' = <<>>
    /\ UNCHANGED <<scrolled, processed, errors, downloaded, bulk_items, scroll_cleared>>
    /\ BUnchanged

\* ThreadPoolExecutor(max_workers=workers): a free worker takes the oldest
\* queued call of process_single_document and starts the download (line 105)
WorkerStart ==
    /\ pc = "b_collect"
    /\ Queued # <<>>
    /\ Cardinality(Running) < args.workers
    /\ futures' = [futures EXCEPT ![Head(Queued)] = "running"]
    /\ downloaded' = downloaded \cup {Head(Queued)}
    /\ UNCHANGED <<pc, scroll_hits, scrolled, documents_seen, processed, errors, skipped,
                   batch_docs, updates, considered, bulk_items, scroll_cleared>>
    /\ BUnchanged

\* add_all_descriptors.py:102-148: a worker's process_single_document returns;
\* it catches every exception itself
WorkerFinish ==
    /\ pc = "b_collect"
    /\ \E d \in Running, outcome \in Outcomes :
          futures' = [futures EXCEPT ![d] = outcome]
    /\ UNCHANGED <<pc, scroll_hits, scrolled, documents_seen, processed, errors, skipped,
                   batch_docs, updates, considered, downloaded, bulk_items, scroll_cleared>>
    /\ BUnchanged

\* add_all_descriptors.py:272-292: the main thread takes one finished future
\* from as_completed and counts it
BCollect ==
    /\ pc = "b_collect"
    /\ \E d \in DOMAIN futures :
          /\ futures[d] \in Outcomes
          /\ LET st == CollectResult(ProcessSingleDocument(d, futures[d]),
                                     [processed |-> processed, errors |-> errors,
                                      updates |-> updates])
             IN /\ processed' = st.processed
                /\ errors' = st.errors
                /\ updates' = st.updates
          /\ futures' = [futures EXCEPT ![d] = "collected"]
    /\ UNCHANGED <<pc, scroll_hits, scrolled, documents_seen, skipped, batch_docs, considered,
                   downloaded, bulk_items, scroll_cleared>>
    /\ BUnchanged

\* add_all_descriptors.py:295-308: the bulk update of the batch: Elasticsearch
\* applies the updates, or the call raises and the exception is only printed
BBulkUpdate ==
    /\ pc = "b_collect"
    /\ AllCollected
    /\ updates # <<>>
    /\ \E applied \in {Range(updates), {}} :
          bulk_items' = [d \in DOMAIN bulk_items \cup Range(updates) |->
                            IF d \in Range(updates) THEN d \in applied ELSE bulk_items[d]]
    /\ pc' = "b_scroll"
    /\ UNCHANGED <<scroll_hits, scrolled, documents_seen, processed, errors, skipped, batch_docs,
                   futures, updates, considered, downloaded, scroll_cleared>>
    /\ BUnchanged

\* add_all_descriptors.py:313-315: the next page replaces `hits`, whatever the
\* for loop left in it
BScroll ==
    /\ \/ pc = "b_scroll"
       \/ pc = "b_collect" /\ AllCollected /\ updates = <<>>
    /\ LET page == NextHits(es_docs, scrolled, args.batch_size)
       IN scroll_hits' = page /\ scrolled' = scrolled + Len(page)
    /\ pc' = "b_batch"
    /\ UNCHANGED <<documents_seen, processed, errors, skipped, batch_docs, futures,
                   updates, considered, downloaded, bulk_items, scroll_cleared>>
    /\ BUnchanged

\* add_all_descriptors.py:234 and 318: `while hits` ends and the scroll is cleared
BClearScroll ==
    /\ pc = "b_batch"
    /\ scroll_hits = <<>>
    /\ scroll_cleared' = TRUE
    /\ pc' = "done"
    /\ UNCHANGED <<scroll_hits, scrolled, documents_seen, processed, errors, skipped, batch_docs,
                   futures, updates, considered, downloaded, bulk_items>>
    /\ BUnchanged

BNext ==
    \/ BSkipOffset
    \/ BStartProcessing
    \/ BPrepareBatch
    \/ WorkerStart
    \/ WorkerFinish
    \/ BCollect
    \/ BBulkUpdate
    \/ BScroll
    \/ BClearScroll

SpecBackfill == BInit /\ [][BNext]_vars

\* process_documents is called with a limit (add_all_descriptors.py:370)
BLimitInit == BInit /\ args.limit # NoLimit

\* a run with a limit in which the main thread and the pool's workers keep
\* running: every download has a timeout (line 105) and every Elasticsearch
\* call returns or raises
SpecBackfillLimit == BLimitInit /\ [][BNext]_vars /\ WF_vars(BNext)

-----------------------------------------------------------------------------
(* backend/utils/faiss_search.py and backend/utils/build_index.py *)

\* the most image files the image directory comes to hold
MaxImages == 3

\* config.py:18: settings.AVAILABLE_DESCRIPTORS
AvailableDescriptors == {"color", "lbp", "hog", "mpeg7"}

\* the feature vectors of the image files, all of norm 5
FeatureVectors == <<<<3, 4>>, <<4, 3>>, <<5, 0>>, <<0, 5>>>>

\* build_index.py:107-108: features.get(descriptor_name) for image file f;
\* extract_all_descriptors gives None for "mpeg7", a name it does not know
Feature(f, d) ==
    LET shift == CASE d = "color" -> 0 [] d = "lbp" -> 1 [] d = "hog" -> 2 [] OTHER -> 0
    IN IF d \in Known THEN FeatureVectors[((f + shift) % 4) + 1] ELSE <<>>

\* faiss IndexFlatL2 on L2-normalized vectors: the squared distance of two
\* vectors of norm 5, in 1/25
Distance(u, v) == 2 * 25 - 2 * Dot(u, v)

\* the FaissSearchEngine without any index loaded
NoEngine == [indexes |-> <<>>, id_mappings |-> <<>>]

\* faiss_search.py:172-177: clear_index
ClearIndex(engine, descriptor_name) ==
    IF descriptor_name \in DOMAIN engine.indexes
    THEN [indexes |-> [d \in DOMAIN engine.indexes \ {descriptor_name} |->
                          engine.indexes[d]],
          id_mappings |-> [d \in DOMAIN engine.id_mappings \ {descriptor_name} |->
                              engine.id_mappings[d]]]
    ELSE engine

\* faiss_search.py:93-131: add_to_index; the vectors are appended to the index
\* and their ids registered from position ntotal on
AddToIndex(engine, descriptor_name, vectors, image_ids) ==
    LET old == IF descriptor_name \in DOMAIN engine.indexes
               THEN engine.indexes[descriptor_name] ELSE <<>>
        oldmap == IF descriptor_name \in DOMAIN engine.id_mappings
                  THEN engine.id_mappings[descriptor_name] ELSE <<>>
        start_idx == Len(old)
        added == [i \in start_idx..(start_idx + Len(image_ids) - 1) |->
                     image_ids[i - start_idx + 1]]
    IN [indexes |-> (descriptor_name :> (old \o vectors)) @@ engine.indexes,
        id_mappings |-> (descriptor_name :> (added @@ oldmap)) @@ engine.id_mappings]

\* faiss_search.py:133-154: save_index writes the index and its id mapping
SaveIndex(engine, files, descriptor_name) ==
    IF descriptor_name \in DOMAIN engine.indexes
    THEN (descriptor_name :> [index |-> engine.indexes[descriptor_name],
                              ids |-> engine.id_mappings[descriptor_name]]) @@ files
    ELSE files

\* faiss_search.py:24-48: _load_indexes reads every index file there is
LoadIndexes(files) ==
    [indexes |-> [d \in DOMAIN files |-> files[d].index],
     id_mappings |-> [d \in DOMAIN files |-> files[d].ids]]

\* build_index.py:90-116: the images of `images` (database ids) whose file is
\* found at IMAGE_DIR/filename and whose descriptor is not None
Extractable(images, db, dir, descriptor_name) ==
    SelectSeq(images, LAMBDA id : /\ db[id] \in DOMAIN dir
                                  /\ dir[db[id]] = "top"
                                  /\ Feature(db[id], descriptor_name) # <<>>)

\* build_index.py:78-139: _build_descriptor_index; st holds the engine and the
\* index files
BuildDescriptorIndex(st, descriptor_name, images, db, dir) ==
    LET image_ids == Extractable(images, db, dir, descriptor_name)
        vectors == [i \in 1..Len(image_ids) |-> Feature(db[image_ids[i]], descriptor_name)]
    IN IF image_ids = <<>> THEN st
       ELSE LET added == AddToIndex(ClearIndex(st.engine, descriptor_name),
                                    descriptor_name, vectors, image_ids)
            IN [engine |-> added,
                files |-> SaveIndex(added, st.files, descriptor_name)]

RECURSIVE BuildAll(_, _, _, _, _)
\* build_index.py:57-68: the loop of build_all_indexes with force_rebuild over
\* the descriptors ds
BuildAll(st, ds, images, db, dir) ==
    IF ds = {} THEN st
    ELSE LET d == CHOOSE x \in ds : TRUE
         IN BuildAll(BuildDescriptorIndex(st, d, images, db, dir), ds \ {d}, images, db, dir)

RECURSIVE Nearest(_, _, _, _)
\* the positions S of the index by increasing distance to the query (ties by
\* position), at most k of them
Nearest(vectors, query_vector, S, k) ==
    IF S = {} \/ k <= 0 THEN <<>>
    ELSE LET dist(i) == Distance(query_vector, vectors[i + 1])
             best == CHOOSE i \in S :
                        \A j \in S : dist(i) < dist(j) \/ (dist(i) = dist(j) /\ i <= j)
         IN <<best>> \o Nearest(vectors, query_vector, S \ {best}, k - 1)

\* faiss index.search(query_vector, top_k): top_k labels, -1 where the index
\* has no further vector
IndexSearch(vectors, query_vector, top_k) ==
    LET nearest == Nearest(vectors, query_vector, 0..(Len(vectors) - 1), top_k)
    IN [i \in 1..top_k |-> IF i <= Len(nearest) THEN nearest[i] ELSE -1]

\* np.array([]), np.array([])
NoResults == [image_ids |-> <<>>, distances |-> <<>>]

\* faiss_search.py:50-91: FaissSearchEngine.search; id_mapping[idx] raises
\* KeyError for a label that is not a key, and the except clause returns the
\* empty arrays
Search(engine, descriptor_name, query_vector, top_k) ==
    IF descriptor_name \notin DOMAIN engine.indexes THEN NoResults
    ELSE LET index == engine.indexes[descriptor_name]
             id_mapping == engine.id_mappings[descriptor_name]
             indices == IndexSearch(index, query_vector, top_k)
         IN IF \E i \in 1..Len(indices) : indices[i] \notin DOMAIN id_mapping
            THEN NoResults
            ELSE [image_ids |-> [i \in 1..Len(indices) |-> id_mapping[indices[i]]],
                  distances |-> [i \in 1..Len(indices) |->
                                    Distance(query_vector, index[indices[i] + 1])]]

\* no search has been made
NoQuery == [descriptor_name |-> "", query_vector |-> <<>>, top_k |-> 0]

\* the values the other components' variables keep while the index is managed
FaissOthersIdle ==
    /\ handler = "faiss"
    /\ request = [image_data |-> "valid", top_k |-> 1, weights |-> [d \in DescSet |-> 0]]
    /\ hrequest = NoHybridRequest
    /\ corpus = <<>>
    /\ weights = [d \in DescSet |-> 0]
    /\ idx = 1
    /\ calls = [d \in DescSet |-> 0]
    /\ failed = {}
    /\ all_results = <<>>
    /\ top_candidates = <<>>
    /\ response = NoResponse
    /\ cv_features = TRUE
    /\ text_results = <<>>
    /\ image = NoImage
    /\ descriptor_names = <<>>
    /\ features = <<>>
    /\ BackfillIdle

\* the database holds the first images of the directory, the indexes were
\* built from them (build_index.py:231-239) and the engine has loaded them
FInit ==
    /\ \E n \in 0..(MaxImages - 1) :
          /\ database = [i \in 1..n |-> i]
          /\ image_dir \in [1..n -> {"top", "sub"}]
    /\ LET built == BuildAll([engine |-> NoEngine, files |-> <<>>], AvailableDescriptors,
                             [i \in 1..Len(database) |-> i], database, image_dir)
       IN /\ index_files = built.files
          /\ search_engine = LoadIndexes(built.files)
    /\ query = NoQuery
    /\ found = NoResults
    /\ pc = "f_ready"
    /\ FaissOthersIdle

\* what the index actions leave alone
FUnchanged ==
    UNCHANGED <<request, corpus, weights, idx, calls, failed, all_results, top_candidates,
                response, hvars, xvars, bvars>>

\* an image file is put in IMAGE_DIR, or in a directory under it
FNewFile ==
    /\ pc # "f_searched"
    /\ \E f \in 1..MaxImages, where \in {"top", "sub"} :
          /\ f \notin DOMAIN image_dir
          /\ image_dir' = (f :> where) @@ image_dir
    /\ pc' = "f_ready"
    /\ UNCHANGED <<database, search_engine, index_files, query, found>>
    /\ FUnchanged

\* build_index.py:141-194: scan_and_index_new_images
FScan ==
    /\ pc # "f_searched"
    /\ LET new_files == DOMAIN image_dir \ {database[i] : i \in DOMAIN database}
           RECURSIVE Listed(_)
           Listed(S) == IF S = {} THEN <<>>
                        ELSE LET f == CHOOSE x \in S : \A y \in S : x <= y
                             IN <<f>> \o Listed(S \ {f})
           db == database \o Listed(new_files)
           new_images == [i \in 1..Cardinality(new_files) |-> Len(database) + i]
           st == [engine |-> search_engine, files |-> index_files]
           color == BuildDescriptorIndex(st, "color", new_images, db, image_dir)
           lbp == BuildDescriptorIndex(color, "lbp", new_images, db, image_dir)
       IN /\ database' = db
          /\ IF new_files # {}
             THEN search_engine' = lbp.engine /\ index_files' = lbp.files
             ELSE UNCHANGED <<search_engine, index_files>>
    /\ pc' = "f_scanned"
    /\ UNCHANGED <<image_dir, query, found>>
    /\ FUnchanged

\* build_index.py:29-76 and 236-239: build_all_indexes over
\* AVAILABLE_DESCRIPTORS with force_rebuild=True
FBuildAll ==
    /\ pc # "f_searched"
    /\ LET built == BuildAll([engine |-> search_engine, files |-> index_files],
                             AvailableDescriptors, [i \in 1..Len(database) |-> i],
                             database, image_dir)
       IN search_engine' = built.engine /\ index_files' = built.files
    /\ pc' = "f_built"
    /\ UNCHANGED <<database, image_dir, query, found>>
    /\ FUnchanged

\* faiss_search.py:19-22: a FaissSearchEngine is created and loads the files
FLoad ==
    /\ pc # "f_searched"
    /\ search_engine' = LoadIndexes(index_files)
    /\ pc' = "f_loaded"
    /\ UNCHANGED <<database, image_dir, index_files, query, found>>
    /\ FUnchanged

\* faiss_search.py:50-91: a call of search
FSearch ==
    /\ pc # "f_searched"
    /\ \E d \in AvailableDescriptors, v \in 1..Len(FeatureVectors), k \in 1..MaxTopK :
          /\ query' = [descriptor_name |-> d, query_vector |-> FeatureVectors[v],
                       top_k |-> k]
          /\ found' = Search(search_engine, d, FeatureVectors[v], k)
    /\ pc' = "f_searched"
    /\ UNCHANGED <<database, image_dir, search_engine, index_files>>
    /\ FUnchanged

\* routers/search.py:106-129: the caller has taken the result of the search
FSearchReturn ==
    /\ pc = "f_searched"
    /\ query' = NoQuery
    /\ found' = NoResults
    /\ pc' = "f_ready"
    /\ UNCHANGED <<database, image_dir, search_engine, index_files>>
    /\ FUnchanged

FNext ==
    \/ FNewFile
    \/ FScan
    \/ FBuildAll
    \/ FLoad
    \/ FSearch
    \/ FSearchReturn

SpecIndex == FInit /\ [][FNext]_vars

-----------------------------------------------------------------------------
(* Properties *)

\* the handler is past the weight rebalancing
Rebalanced == pc \in {"search", "combine", "second_pass", "respond"}
                 \/ (pc = "done" /\ response.status = 200)

\* the search loop has ended
SearchDone == pc \in {"combine", "second_pass", "respond"}
                 \/ (pc = "done" /\ response.status = 200)

\* the descriptors the request gives a weight > 0
Requested == {d \in DescSet : request.weights[d] > 0}

\* vgg is requested together with at least one other descriptor
VggAmongOthers == "vgg" \in Requested /\ Cardinality(Requested) > 1

\* every weighted score stored so far is score * w[d]
FusedWith(w) ==
    \A i \in 1..Len(all_results) :
        \A d \in DOMAIN all_results[i].weighted_scores :
            all_results[i].weighted_scores[d] = all_results[i].descriptor_scores[d] * w[d]

C2_NormalizedWeights ==
    (Rebalanced /\ ~VggAmongOthers /\ Requested # {}) =>
        /\ SumFn(weights, Requested) = WeightScale
        /\ \A d \in Requested :
              weights[d] * SumFn(request.weights, Requested)
                  = request.weights[d] * WeightScale

\* no descriptor is usable: none is requested, or every requested one failed
NoUsableDescriptors == Requested \subseteq failed

\* C3 as stated: a query in which no descriptor is usable never ends as a
\* successful response; it ends in an error outcome with zero candidates.
C3_NoUsableIsError ==
    (pc = "done" /\ NoUsableDescriptors) =>
        /\ response.status # 200
        /\ response.results = <<>>

\* document image_id is among the k nearest of descriptor d's index: fewer
\* than k indexed documents are nearer (or as near and earlier in the index)
AmongNearest(image_id, d, k) ==
    LET sc(i) == EsScore(QueryVec(d), Source(corpus, i).vectors[FieldName(d)])
    IN /\ image_id \in Indexed(corpus, d)
       /\ Cardinality({j \in Indexed(corpus, d) :
                          \/ sc(j) > sc(image_id)
                          \/ (sc(j) = sc(image_id) /\ j < image_id)}) < k

\* the sum of score * weight document image_id gets from the descriptors
\* whose search returned
ExpectedTotal(image_id) ==
    LET part == [d \in Requested \ failed |->
                    IF AmongNearest(image_id, d, request.top_k * 2)
                    THEN EsScore(QueryVec(d),
                                 Source(corpus, image_id).vectors[FieldName(d)]) * weights[d]
                    ELSE 0]
    IN SumFn(part, Requested \ failed)

\* C4: when the search of one active descriptor raises, the searches of the
\* remaining active descriptors are still issued, and the query still returns
\* a ranked list built from the remaining descriptors' scores; it never
\* becomes an error.
C4_PartialFailureIsolated ==
    (failed # {}) =>
        /\ pc = "done" => response.status = 200
        /\ SearchDone => \A d \in Requested : calls[d] = 1
        /\ (pc = "done" /\ response.status = 200) =>
              \A i \in 1..Len(response.results) :
                  response.results[i].score = ExpectedTotal(response.results[i].image_id)

\* C4 witness: a successful response with results although one search raised
C4_Witness ==
    /\ pc = "done"
    /\ response.status = 200
    /\ Cardinality(failed) = 1
    /\ Cardinality(Requested) > 2
    /\ Len(response.results) > 1


\* the handler answered successfully
Answered == pc = "done" /\ response.status = 200

\* the second pass has run
SecondPassDone == pc = "respond" \/ Answered

\* the all_results entry of a candidate
DataOf(candidate) == all_results[KeyIndex(all_results, candidate.image_id)]

\* C5 as stated: a descriptor whose search call failed is not a key of the
\* per-descriptor percentages of any returned result, also after the second
\* pass.
C5_FailedDescriptorAbsent ==
    Answered =>
        \A i \in 1..Len(response.results) :
            \A d \in failed : d \notin DOMAIN response.results[i].descriptor_scores

\* C6 as stated: for a surviving candidate and an active descriptor without a
\* first-pass score, a stored document without a vector for that descriptor
\* gets the percentage 0.0 under that descriptor's key.
C6_MissingVectorIsZero ==
    Answered =>
        \A i \in 1..Len(response.results) :
            \A d \in Requested :
                LET r == response.results[i]
                IN (/\ d \notin DOMAIN DataOf(r).descriptor_percentages
                    /\ ~HasField(Source(corpus, r.image_id), d))
                   => (d \in DOMAIN r.descriptor_scores /\ r.descriptor_scores[d] = 0)

\* C7: in the second pass, for every surviving candidate and every active
\* descriptor its stored document has a vector for: a first-pass percentage is
\* reused unchanged; otherwise the percentage is the cosine of query and stored
\* vector clamped to [0,100], which is what the first-pass decoding gives for
\* the backend similarity (1 + cosine)/2 (and 0.0 when a norm is zero).
C7_SecondPassPercentage ==
    SecondPassDone =>
        \A i \in 1..Len(top_candidates) :
            \A d \in Requested :
                LET r == top_candidates[i]
                    src == Source(corpus, r.image_id)
                    first == DataOf(r).descriptor_percentages
                    q == QueryVec(d)
                    v == src.vectors[FieldName(d)]
                IN HasField(src, d) =>
                    /\ d \in DOMAIN r.descriptor_scores
                    /\ d \in DOMAIN first => r.descriptor_scores[d] = first[d]
                    /\ (d \notin DOMAIN first /\ Dot(q, q) > 0 /\ Dot(v, v) > 0) =>
                          /\ r.descriptor_scores[d] \in 0..1000
                          /\ Dot(q, v) <= 0 => r.descriptor_scores[d] = 0
                          /\ Dot(q, v) >= 0 =>
                                r.descriptor_scores[d] * Norm(q) * Norm(v) = Dot(q, v) * 1000
                          /\ r.descriptor_scores[d] = ScoreToPercentage(EsScore(q, v))
                    /\ (d \notin DOMAIN first /\ (Dot(q, q) = 0 \/ Dot(v, v) = 0)) =>
                          r.descriptor_scores[d] = 0

\* C7 witness: a candidate returned with one reused percentage and one
\* percentage computed in the second pass for a descriptor whose search
\* succeeded without returning it
C7_Witness ==
    /\ Answered
    /\ failed = {}
    /\ \E i \in 1..Len(response.results) :
          \E d \in Requested, e \in Requested :
              LET r == response.results[i]
              IN /\ d \notin DOMAIN DataOf(r).descriptor_percentages
                 /\ d \in DOMAIN r.descriptor_scores
                 /\ r.descriptor_scores[d] = 960
                 /\ e \in DOMAIN DataOf(r).descriptor_percentages
                 /\ r.descriptor_scores[e] = 1000

\* the entries of all_results that pass the metadata filter
Passing == {i \in 1..Len(all_results) : PassesFilter(Source(corpus, all_results[i].image_id))}

\* the position in all_results at which a candidate was first seen
FirstSeen(candidate) == KeyIndex(all_results, candidate.image_id)

\* C8: the result list has min(top_k, number of candidates passing the
\* metadata filter) entries, in non-increasing order of weighted_total, equal
\* totals in first-seen order; it holds the best candidates in that order.
C8_RankedTopK ==
    (pc \in {"second_pass", "respond"} \/ Answered) =>
        LET L == top_candidates
            inList == {FirstSeen(L[i]) : i \in 1..Len(L)}
        IN /\ Len(L) = Min(request.top_k, Cardinality(Passing))
           /\ inList \subseteq Passing
           /\ Cardinality(inList) = Len(L)
           /\ \A i \in 1..Len(L) : L[i].score = all_results[FirstSeen(L[i])].total_score
           /\ \A i \in 1..Len(L), j \in 1..Len(L) :
                 i < j => \/ L[i].score > L[j].score
                          \/ (L[i].score = L[j].score /\ FirstSeen(L[i]) < FirstSeen(L[j]))
           /\ \A k \in Passing \ inList :
                 \A i \in 1..Len(L) :
                     \/ L[i].score > all_results[k].total_score
                     \/ (L[i].score = all_results[k].total_score /\ FirstSeen(L[i]) < k)
           /\ Answered => response.results = L

\* C8 witness: two results of equal weighted_total, one candidate dropped by
\* the metadata filter and one cut by top_k
C8_Witness ==
    /\ Answered
    /\ request.top_k = 2
    /\ Len(response.results) = 2
    /\ response.results[1].score = response.results[2].score
    /\ response.results[1].score > 0
    /\ Len(all_results) = 3
    /\ Cardinality(Passing) = 2

Ids(candidates) == [i \in 1..Len(candidates) |-> candidates[i].image_id]

Scores(candidates) == [i \in 1..Len(candidates) |-> candidates[i].score]

\* C9: the second pass neither reorders nor drops candidates, and each
\* result's global_match is the arithmetic mean (to one decimal) of all of its
\* completed per-descriptor percentages.
C9_SecondPassKeepsOrder ==
    /\ [][pc = "second_pass" =>
            /\ Ids(top_candidates') = Ids(top_candidates)
            /\ Scores(top_candidates') = Scores(top_candidates)]_vars
    /\ [][pc = "respond" => response'.results = top_candidates]_vars
    /\ [](SecondPassDone =>
            \A i \in 1..Len(top_candidates) :
                LET p == top_candidates[i].descriptor_scores
                    n == Cardinality(DOMAIN p)
                    gm == top_candidates[i].global_match
                IN IF n = 0 THEN gm = 0
                   ELSE /\ 2 * (n * gm - SumFn(p, DOMAIN p)) <= n
                        /\ 2 * (SumFn(p, DOMAIN p) - n * gm) <= n)

\* C9 witness: two results in the order of the first pass, the first of which
\* got a percentage in the second pass that changed its global_match
C9_Witness ==
    /\ Answered
    /\ Len(response.results) = 2
    /\ response.results[1].score > response.results[2].score
    /\ DOMAIN response.results[1].descriptor_scores
          # DOMAIN DataOf(response.results[1]).descriptor_percentages
    /\ response.results[1].global_match
          # GlobalMatch(DataOf(response.results[1]).descriptor_percentages)
    /\ response.results[1].global_match < response.results[2].global_match


\* the backend similarity of a document's stored vector for descriptor d
StoredSimilarity(image_id, d) == DocScore(corpus, image_id, d)

\* p is a percentage of (image_id, d): within [0,100], and 0 when the backend
\* similarity is at most 0.5
ValidPercentage(p, image_id, d) ==
    /\ p >= 0
    /\ p <= 1000
    /\ StoredSimilarity(image_id, d) * 2 <= SimScale => p = 0

\* every percentage held by a sequence of candidates is valid
ValidPercentages(candidates) ==
    \A i \in 1..Len(candidates) :
        \A d \in DOMAIN candidates[i].descriptor_scores :
            ValidPercentage(candidates[i].descriptor_scores[d], candidates[i].image_id, d)

\* C10: every per-descriptor percentage of a multi-descriptor or hybrid
\* response, decoded from a backend similarity or computed in the second pass,
\* lies in [0,100], and a similarity s <= 0.5 is reported as 0.
C10_PercentageRange ==
    /\ ValidPercentages(top_candidates)
    /\ ValidPercentages(response.results)
    /\ handler = "hybrid" => ValidPercentages(all_results)
    /\ handler = "multi" =>
          \A i \in 1..Len(all_results) :
              \A d \in DOMAIN all_results[i].descriptor_percentages :
                  /\ ValidPercentage(all_results[i].descriptor_percentages[d],
                                     all_results[i].image_id, d)
                  /\ all_results[i].descriptor_scores[d] * 2 <= SimScale
                        => all_results[i].descriptor_percentages[d] = 0

\* C10 witness: a multi-descriptor response in which one result has a
\* descriptor of similarity 0 (cosine -1), one of similarity 0.5 and one of
\* similarity 1.0, reported as 0, 0 and 100
C10_Witness ==
    /\ handler = "multi"
    /\ Answered
    /\ \E i \in 1..Len(response.results) :
          LET r == response.results[i]
          IN /\ {"vgg", "color", "lbp"} \subseteq DOMAIN DataOf(r).descriptor_scores
             /\ DataOf(r).descriptor_scores["lbp"] = 0
             /\ DataOf(r).descriptor_scores["vgg"] * 2 = SimScale
             /\ r.descriptor_scores["lbp"] = 0
             /\ r.descriptor_scores["vgg"] = 0
             /\ r.descriptor_scores["color"] = 1000

\* the image is returned with similarity 1.0 by the search of every requested
\* descriptor
ReturnedIdentical(data) ==
    \A d \in Requested :
        /\ d \in DOMAIN data.descriptor_scores
        /\ data.descriptor_scores[d] = SimScale

\* C11: a result that every active descriptor's search returned with
\* similarity 1.0 (the query image is identical to that indexed image) is
\* reported with 100.0 for every active descriptor, and for no other, and its
\* global_match is 100.0.
C11_IdenticalImageIs100 ==
    Answered =>
        \A i \in 1..Len(response.results) :
            LET r == response.results[i]
            IN ReturnedIdentical(DataOf(r)) =>
                  /\ DOMAIN r.descriptor_scores = Requested
                  /\ \A d \in Requested : r.descriptor_scores[d] = PctScale
                  /\ r.global_match = PctScale

\* C11 witness: the default request (all six descriptors active) answered
\* with the indexed copy of the query image, which all six searches returned
\* with similarity 1.0
C11_Witness ==
    /\ Answered
    /\ request.weights = DefaultWeights
    /\ failed = {}
    /\ \E i \in 1..Len(response.results) :
          LET r == response.results[i]
          IN /\ corpus[r.image_id] = "identical"
             /\ ReturnedIdentical(DataOf(r))
             /\ DOMAIN r.descriptor_scores = DescSet
             /\ r.global_match = PctScale

\* the _source of a returned record has its join fields
HasJoinFields(source) ==
    /\ source.flickr_farm # ""
    /\ source.flickr_server # ""
    /\ source.flickr_secret # ""

\* the image_status values process_row gives a document whose ingestion failed
\* (ingest_flickr_data.py:166, 230)
FailedStatuses == {"download_failed", "feature_extraction_failed"}

\* C12 as stated: no search response holds a record that lacks a required
\* join field or that the ingestion flagged as failed through its
\* image_status.
C12_NoFlaggedRecord ==
    \A i \in 1..Len(response.results) :
        LET source == Source(corpus, response.results[i].image_id)
        IN /\ HasJoinFields(source)
           /\ source.image_status \notin FailedStatuses

\* search_hybrid has built and sorted combined_results
HybridCombined ==
    /\ handler = "hybrid"
    /\ pc = "h_respond" \/ Answered

\* x is y / den rounded to the nearest integer
RoundedFrom(x, y, den) == 2 * (x * den - y) <= den /\ 2 * (y - x * den) <= den

\* C13: in hybrid search each result's score is visual_percentage *
\* image_weight + text_percentage * text_weight with the two weights of the
\* request as supplied; the results are in non-increasing order of that score
\* and are all the records that pass the filter, cut to top_k; global_match is
\* (visual_percentage + text_percentage) / 2 to one decimal, whatever the
\* weights.
C13_HybridScore ==
    HybridCombined =>
        LET L == top_candidates
        IN /\ \A i \in 1..Len(L) :
                 LET visual == HybridVisualScore(DataOf(L[i]).descriptor_scores)
                     text == DataOf(L[i]).text_score
                 IN /\ L[i].score = visual * hrequest.image_weight
                                      + text * hrequest.text_weight
                    /\ RoundedFrom(L[i].visual_match, visual, VisualScale)
                    /\ RoundedFrom(L[i].text_match, text, VisualScale)
                    /\ RoundedFrom(L[i].global_match, visual + text, 2 * VisualScale)
           /\ \A i \in 1..Len(L), j \in 1..Len(L) : i < j => L[i].score >= L[j].score
           /\ {FirstSeen(L[i]) : i \in 1..Len(L)} = Passing
           /\ Len(L) = Cardinality(Passing)
           /\ Answered => response.results = SubSeq(L, 1, Min(hrequest.top_k, Len(L)))

\* C13 witness: a hybrid response to a request with text_weight 0.25 and
\* image_weight 0.5 (not summing to 1) whose two results are ordered by the
\* weighted score, against the order of their global_match
C13_Witness ==
    /\ handler = "hybrid"
    /\ Answered
    /\ hrequest.text_weight = 250
    /\ hrequest.image_weight = 500
    /\ Len(response.results) = 2
    /\ response.results[1].text_match < response.results[2].text_match
    /\ response.results[1].score > response.results[2].score
    /\ response.results[2].score > 0
    /\ response.results[1].visual_match > 0
    /\ response.results[1].global_match < response.results[2].global_match

\* the image_data of the request being served
ImageData == IF handler = "hybrid" THEN hrequest.image_data ELSE request.image_data

\* C19 as stated: a request whose image data is not valid base64 or not a
\* decodable image ends in the HTTP 400 outcome, not in HTTP 500, and no
\* backend search is performed for it.
C19_InvalidImageIs400 ==
    (pc = "done" /\ ImageData # "valid") =>
        /\ response.status = 400
        /\ \A d \in DescSet : calls[d] = 0

\* C20: within one multi-descriptor query the backend search is invoked at
\* most once per active descriptor and never for an inactive one, whether the
\* call returns or raises: a descriptor whose call raised has been called
\* exactly once, however far the handler has got.
C20_AtMostOneSearch ==
    handler = "multi" =>
        \A d \in DescSet :
            /\ calls[d] <= 1
            /\ d \notin Requested => calls[d] = 0
            /\ d \in failed => calls[d] = 1

\* C20 witness: a query answered after the search of one of its two active
\* descriptors raised and the other returned, each called once
C20_Witness ==
    /\ Answered
    /\ Cardinality(Requested) = 2
    /\ Cardinality(failed) = 1
    /\ \A d \in Requested : calls[d] = 1
    /\ Len(all_results) > 0

\* the positions of the returned dict that hold the entry of `name`
EntriesOf(name) == {i \in 1..Len(features) : features[i].name = name}

\* C14 as stated: LBPExtractor.extract returns a vector of exactly 10 values
\* whatever pattern codes occur in the image, and on the failure path.
C14_LbpLengthIs10 ==
    \A i \in EntriesOf("lbp") : Len(features[i].vector) = 10

\* C15: HOGExtractor.extract returns exactly 81 values for every input
\* resolution: the features are computed on the image resized to 128x128,
\* whatever its size, and are truncated (or zero-padded) to 81; the failure
\* path returns 81 zeros.
C15_HogLengthIs81 ==
    \A i \in EntriesOf("hog") :
        LET v == features[i].vector
        IN /\ ~features[i].is_none
           /\ Len(v) = 81
           /\ Raises(image, "hog") => IsZero(v)
           /\ ~Raises(image, "hog") =>
                 \A k \in 1..81 :
                     v[k] = IF k <= HogFeatureLength(128) THEN k ELSE 0

\* C15 witness: the HOG vector of a 300x300 image, the first 81 of the
\* 196 * 81 values computed at 128x128
C15_Witness ==
    /\ image.size = 300
    /\ ~Raises(image, "hog")
    /\ HogFeatureLength(Resize(image.size)) = 196 * 81
    /\ \E i \in EntriesOf("hog") :
          Len(features[i].vector) = 81 /\ features[i].vector[81] = 81

\* C16: SIFTExtractor.extract returns exactly 128 values on every path: the
\* first 64 mean-pooled dimensions followed by the first 64
\* standard-deviation-pooled dimensions; all 128 are zero when no keypoint is
\* detected (and on the failure path).
C16_SiftLengthIs128 ==
    \A i \in EntriesOf("sift") :
        LET v == features[i].vector
        IN /\ ~features[i].is_none
           /\ Len(v) = 128
           /\ (Raises(image, "sift") \/ image.keypoints = 0) => IsZero(v)
           /\ (~Raises(image, "sift") /\ image.keypoints > 0) =>
                 \A j \in 1..64 :
                     /\ v[j] = j
                     /\ v[64 + j] = IF image.keypoints > 1 THEN StdPool + j ELSE 0

\* C16 witness: the SIFT vectors of an image without keypoints and of an
\* image with two keypoints are both returned states; this one is the pooled
\* vector of two keypoints
C16_Witness ==
    /\ image.keypoints = 2
    /\ ~Raises(image, "sift")
    /\ \E i \in EntriesOf("sift") :
          /\ features[i].vector[64] = 64
          /\ features[i].vector[65] = StdPool + 1
          /\ features[i].vector[128] = StdPool + 64

\* the dimension C17 gives for each classical extractor
ClaimedDimension ==
    ("color" :> 24) @@ ("lbp" :> 10) @@ ("hog" :> 81) @@ ("edge_histogram" :> 64)
        @@ ("sift" :> 128)

\* C17: when an internal step of one of the five classical extractors raises,
\* extract does not propagate the exception: it returns an all-zero vector of
\* the descriptor's declared dimension (24, 10, 81, 64, 128).
C17_FailureGivesZeroVector ==
    \A i \in 1..Len(features) :
        (features[i].name \in Known /\ Raises(image, features[i].name)) =>
            /\ ~features[i].is_none
            /\ Len(features[i].vector) = ClaimedDimension[features[i].name]
            /\ DeclaredDimension(features[i].name) = ClaimedDimension[features[i].name]
            /\ IsZero(features[i].vector)

\* C17 witness: a two-channel image, on which every extractor raises, gave a
\* zero vector for LBP and then one for SIFT
C17_Witness ==
    /\ pc = "done"
    /\ image.channels = 2
    /\ descriptor_names = <<"lbp", "sift">>
    /\ Len(features) = 2
    /\ features[1].vector = [k \in 1..10 |-> 0]
    /\ features[2].vector = [k \in 1..128 |-> 0]

\* extract_all_descriptors has returned
Returned == handler = "extract" /\ pc = "done"

DocIds == 1..Len(es_docs)

\* the documents helpers.bulk was given an update for
SentToBulk == DOMAIN bulk_items

\* the futures the main thread has not taken from as_completed yet
Uncollected == {d \in DOMAIN futures : futures[d] # "collected"}

\* the documents of the current batch whose update waits for the bulk call
AwaitingBulk == IF pc = "b_collect" THEN Len(updates) ELSE 0

\* the run has ended: the scroll loop is left and the scroll is cleared
BackfillDone == pc = "done" /\ scroll_cleared

\* document d holds the five descriptor fields
Complete(d) == es_docs[d] = DescriptorFields

\* C21: without force a document that holds all five descriptor fields is
\* counted as skipped and is never downloaded nor updated; with force nothing
\* is skipped and every document the loop reaches is submitted to a worker.
C21_CompleteSkippedUnlessForced ==
    /\ ~args.force =>
          /\ \A d \in DocIds : Complete(d) =>
                d \notin Range(batch_docs) /\ d \notin downloaded /\ d \notin SentToBulk
          /\ skipped = Cardinality({d \in Range(considered) :
                                       Complete(d)})
          /\ \A d \in Range(considered) : ~Complete(d) =>
                d \in Range(batch_docs) \cup downloaded
    /\ args.force =>
          /\ skipped = 0
          /\ \A d \in Range(considered) : d \in Range(batch_docs) \cup downloaded

\* C21 witness: a run without force ended having skipped a complete document
\* and downloaded an incomplete one
C21_Witness ==
    /\ BackfillDone
    /\ ~args.force
    /\ skipped >= 1
    /\ \E d \in downloaded : ~Complete(d)

\* C22: under every interleaving of the workers each document the loop reaches
\* is counted exactly once, as processed, as an error or as skipped, whatever
\* becomes of the other documents; every document that yielded descriptors is
\* handed to the bulk update, and at the end processed + errors + skipped is
\* the number of documents reached.
C22_EveryDocumentCountedOnce ==
    /\ processed + errors + skipped + Cardinality(Uncollected) = Len(considered)
    /\ Cardinality(Range(considered)) = Len(considered)
    /\ processed = Cardinality(SentToBulk) + AwaitingBulk
    /\ pc = "done" => processed + errors + skipped = Len(considered)

\* C22 witness: with two workers a batch of two ended with one document failed
\* and the other one updated
C22_Witness ==
    /\ BackfillDone
    /\ args.workers = 2 /\ args.batch_size = 2 /\ Len(es_docs) = 2
    /\ errors = 1 /\ processed = 1
    /\ \E d \in SentToBulk : bulk_items[d]

\* C24: with offset N > 0 none of the first N documents in scroll order is
\* reached by the processing loop, downloaded or updated.
C24_OffsetDocumentsUntouched ==
    \A d \in DocIds : d <= args.offset =>
        d \notin Range(considered) /\ d \notin downloaded /\ d \notin SentToBulk

\* C25: with a limit L the processing loop reaches at most L documents, none
\* of them beyond the L-th after the offset, none such is downloaded or
\* updated, and the run ends with the scroll cleared.
C25_LimitBoundsRunAndTerminates ==
    /\ [](args.limit # NoLimit =>
            /\ Len(considered) <= args.limit
            /\ \A d \in Range(considered) \cup downloaded \cup SentToBulk :
                  d <= args.offset + args.limit)
    /\ (args.limit # NoLimit => <>BackfillDone)

\* C25 witness: a run with a limit ended having reached exactly `limit`
\* documents of an index that holds more after the offset
C25_Witness ==
    /\ BackfillDone
    /\ args.limit # NoLimit
    /\ Len(considered) = args.limit
    /\ Len(es_docs) > args.offset + args.limit

\* the number of weighted scores the candidates hold
StoredWeightedScores ==
    SumFn([i \in 1..Len(all_results) |-> Cardinality(DOMAIN all_results[i].weighted_scores)],
          1..Len(all_results))

\* C23: after the first pass each candidate's weighted total is the sum, over
\* exactly the active descriptors (effective weight > 0) whose search returned
\* that image, of similarity * effective weight: the candidates hold one
\* weighted score per hit of every search that returned, each the image's
\* similarity on that descriptor times the descriptor's effective weight, and
\* a descriptor of weight <= 0 is never searched and contributes to no
\* candidate.
C23_WeightedTotal ==
    pc = "second_pass" =>
        /\ \A d \in DescSet : weights[d] <= 0 => calls[d] = 0
        /\ StoredWeightedScores =
              SumFn([d \in DescSet |-> IF weights[d] > 0 /\ d \notin failed
                                       THEN Min(request.top_k * 2,
                                                Cardinality(Indexed(corpus, d)))
                                       ELSE 0],
                    DescSet)
        /\ \A i \in 1..Len(all_results) :
              LET e == all_results[i]
                  returned == DOMAIN e.weighted_scores
              IN /\ returned # {}
                 /\ returned \subseteq {d \in DescSet : weights[d] > 0 /\ d \notin failed}
                 /\ \A d \in returned :
                       e.weighted_scores[d]
                           = DocScore(corpus, e.image_id, d) * weights[d]
                 /\ e.total_score = SumFn(e.weighted_scores, returned)

\* C23 witness: the first pass ended with a candidate summed over two
\* descriptors, a candidate that one of the searches did not return, and a
\* descriptor of weight 0
C23_Witness ==
    /\ pc = "second_pass"
    /\ \E d \in DescSet : weights[d] <= 0
    /\ \E i \in 1..Len(all_results) :
          Cardinality(DOMAIN all_results[i].weighted_scores) >= 2
    /\ \E i \in 1..Len(all_results), d \in DescSet :
          /\ weights[d] > 0 /\ d \notin failed
          /\ d \notin DOMAIN all_results[i].weighted_scores

\* the visual percentage of the claim, in 1/VisualScale: vgg 0.7 and 0.3
\* split over the other contributing descriptors; the plain mean with vgg
\* alone or absent; 0 with no descriptor
SeventyThirtyVisual(desc_scores) ==
    LET keys == DOMAIN desc_scores
        others == keys \ {"vgg"}
        n == Cardinality(others)
    IN IF keys = {} THEN 0
       ELSE IF "vgg" \in keys /\ n >= 1
            THEN ((7 * n * desc_scores["vgg"] + 3 * SumFn(desc_scores, others)) * VisualScale)
                     \div (10 * n)
            ELSE (SumFn(desc_scores, keys) * VisualScale) \div Cardinality(keys)

\* C26: the hybrid visual percentage of a candidate with a vgg score and
\* n >= 1 other descriptor scores is 0.7 * vgg + 0.3 * (mean of the others),
\* the distribution of the multi-descriptor search; with vgg alone or absent
\* it is the plain mean, and 0 when no descriptor contributed.
C26_VisualSeventyThirty ==
    HybridCombined =>
        \A i \in 1..Len(top_candidates) :
            top_candidates[i].score =
                SeventyThirtyVisual(DataOf(top_candidates[i]).descriptor_scores)
                    * hrequest.image_weight
                + DataOf(top_candidates[i]).text_score * hrequest.text_weight

\* no two entries of L are about the same image
NoRepeatedId(L) ==
    \A i \in 1..Len(L), j \in 1..Len(L) : i # j => L[i].image_id # L[j].image_id

\* the number of hits the kNN search on descriptor d returns when k are asked for
HitCount(d, k) == Min(k, Cardinality(Indexed(corpus, d)))

\* the number of descriptor scores the candidates hold
StoredScores ==
    SumFn([i \in 1..Len(all_results) |-> Cardinality(DOMAIN all_results[i].descriptor_scores)],
          1..Len(all_results))

\* C28: no image id appears twice among the candidates or in the result list
\* of a multi-descriptor or hybrid query.  When the searches are over the
\* candidates, one per image, hold exactly one score per hit of every search
\* that returned, so the scores of an image several searches returned are in
\* its single candidate; in hybrid search the candidate also holds the image's
\* text score and every text match has a candidate.
C28_OneCandidatePerImage ==
    /\ NoRepeatedId(all_results)
    /\ NoRepeatedId(top_candidates)
    /\ Answered => NoRepeatedId(response.results)
    /\ (handler = "multi" /\ pc = "combine") =>
          StoredScores =
              SumFn([d \in DescSet |-> IF weights[d] > 0 /\ d \notin failed
                                       THEN HitCount(d, request.top_k * 2) ELSE 0],
                    DescSet)
    /\ (handler = "hybrid" /\ pc = "h_respond") =>
          /\ StoredScores =
                SumFn([d \in DescSet |-> IF calls[d] = 1 /\ d \notin failed
                                         THEN HitCount(d, hrequest.top_k * 3) ELSE 0],
                      DescSet)
          /\ \A i \in 1..Len(all_results) :
                all_results[i].text_score
                    = TextScoreOf(text_results, all_results[i].image_id)
          /\ \A h \in 1..Len(text_results) :
                \E i \in 1..Len(all_results) :
                    all_results[i].image_id = text_results[h].image_id

\* C28 witness: a hybrid response with two results, one of them an image that
\* the text search and at least two descriptor searches returned
C28_Witness ==
    /\ handler = "hybrid"
    /\ Answered
    /\ Len(response.results) = 2
    /\ \E i \in 1..Len(response.results) :
          /\ response.results[i].text_match > 0
          /\ Cardinality(DOMAIN response.results[i].descriptor_scores) >= 2

\* C30: for every classical descriptor the vector the extractor returns has
\* as many values as the `dims` of the index mapping field that stores it.
C30_LengthEqualsMappingDims ==
    \A i \in 1..Len(features) :
        (features[i].name \in Known /\ ~features[i].is_none) =>
            Len(features[i].vector) = MappingDims(features[i].name)

\* the image ids registered in the engine's index of descriptor d
IdsIn(engine, d) ==
    IF d \in DOMAIN engine.id_mappings
    THEN {engine.id_mappings[d][i] : i \in DOMAIN engine.id_mappings[d]}
    ELSE {}

\* C27: when scan_and_index_new_images has found new images, the color and
\* lbp indexes hold afterwards the images they held before as well as the new
\* ones (those of the new images whose file lies in IMAGE_DIR itself).
C27_ScanKeepsIndexedImages ==
    [][(pc' = "f_scanned" /\ database' # database) =>
          \A d \in {"color", "lbp"} :
              /\ IdsIn(search_engine, d) \subseteq IdsIn(search_engine', d)
              /\ \A id \in (Len(database) + 1)..Len(database') :
                    image_dir[database'[id]] = "top" => id \in IdsIn(search_engine', d)]_vars

\* C29: search on a loaded index of n vectors returns min(top_k, n) image ids,
\* each of them registered in the index; with n < top_k these are the n
\* stored images, not an empty result.
C29_SearchReturnsMinTopK ==
    (pc = "f_searched" /\ query.descriptor_name \in DOMAIN search_engine.indexes) =>
        /\ Len(found.image_ids)
              = Min(query.top_k, Len(search_engine.indexes[query.descriptor_name]))
        /\ \A i \in 1..Len(found.image_ids) :
              found.image_ids[i] \in IdsIn(search_engine, query.descriptor_name)

====
